---- MODULE Spec2Model ----
(***************************************************************************)
(* State-machine model of the game-client traffic simulator:               *)
(*   - PlayerStats               (src/src/client/player_stats.py)          *)
(*   - GameClient                (src/src/client/game_client.py)           *)
(*   - GameClientManager         (src/src/client/client_manager.py)        *)
(*   - PortListener              (src/src/server/port_listener.py)         *)
(*   - NFTablesTestServer        (src/src/server/test_server.py)           *)
(* One connection is followed: its driver thread (simulate_game_traffic),  *)
(* its shutdown-listener thread, the wall clock and the network            *)
(* environment (the server that answers or not, the datagrams that reach   *)
(* the listener port).                                                     *)
(*                                                                         *)
(* Time is counted in whole seconds.  Round-trip times are sub-second      *)
(* (every ping socket has a 0.5 s timeout) and are drawn from RttValues.   *)
(* Python's None is the integer None == -1 (no measured time is negative). *)
(* The text of an error-log entry is reduced to its prefix ("UDP", "TCP",  *)
(* "Activity"); the port and the exception text are not modelled.          *)
(*                                                                         *)
(* Every action that asks something of the network takes the regime E of   *)
(* the environment: the sets its answers are drawn from.  A specification  *)
(* fixes a regime, so that one part of the environment varies freely while *)
(* the others answer as a healthy server does:                             *)
(*   Spec         liveness probes and the shutdown listener vary           *)
(*   SpecTraffic  the socket operations of the traffic activities vary     *)
(*   SpecPing     the answers to pings vary                                *)
(* SpecLive is Spec with the fairness of the thread scheduler, and         *)
(* SpecDuration is Spec for a process started with any duration.           *)
(*                                                                         *)
(* Further specifications leave the single driver aside:                   *)
(*   SpecStats    a PlayerStats object called directly, as a test does     *)
(*   SpecSnapshot throughput snapshots and sends on such an object         *)
(*   SpecCalls    methods of a GameClient called directly; the variable    *)
(*                `call` keeps the inputs and the outcome of the last one  *)
(*   SpecFleet    GameClientManager with its connections, each driver      *)
(*                reduced to its activities and its termination            *)
(*   SpecReport   generate_report over connections that have terminated    *)
(*   SpecDown     the fleet under the thread scheduler, against a server    *)
(*                that has stopped answering                                *)
(*   SpecPorts    _setup_shutdown_socket for every identity                 *)
(*   SpecServer   the test server: its port listeners, each with its        *)
(*                thread, and shutdown_server with its broadcast            *)
(***************************************************************************)
EXTENDS Integers, Sequences, FiniteSets, TLC

(***************************************************************************)
(* Bounds of the model                                                     *)
(***************************************************************************)
Epoch == 3          \* clock reading when the client object is constructed
TickSeconds == 3    \* seconds between two readings of the clock
MaxElapsed == 6     \* the clock stops MaxElapsed seconds after Epoch
MaxIter == 3        \* loop iterations a driver may begin
MaxFaults == 1      \* exceptions the environment injects into activities
MaxSends == 5       \* UDP packets a connection may attempt to send
MaxTcp == 1         \* TCP probes a connection may attempt
MaxMsgs == 1        \* datagrams delivered to the shutdown-listener port
MaxCalls == 4       \* direct calls of a PlayerStats method on one object
MaxClients == 4     \* connections a GameClientManager is asked to start
MaxFleetOps == 2    \* activities the connections of a fleet run in all
ReportClients == 3  \* connections whose statistics a report aggregates
MaxTcpSuccess == 2  \* successful TCP probes of one reported connection
MaxTcpFailed == 1   \* failed TCP probes of one reported connection
PlayerIdLen == 3    \* len(str(player_id)) for an identity such as "1-1"
MaxDownClients == 2    \* connections of the fleet that meets a dead server
MaxTcpListeners == 1   \* TCP ports of DEFAULT_TCP_PORTS the server run opens
MaxUdpListeners == 1   \* UDP ports of DEFAULT_UDP_PORTS the server run opens
MaxConnections == 1    \* connections and datagrams that reach the server in a run

(***************************************************************************)
(* Program constants                                                       *)
(***************************************************************************)
ut_udp_overhead == 28
ut_tickrate == 85
ping_interval == 2
server_check_interval == 2
throughput_snapshot_interval == 2
max_consecutive_failures == 2
MinBurst == 5
MaxBurst == 15

shutdown_port_base == 7778
shutdown_port_slots == 10
\* GameClientManager(..., duration=120, ...)
default_duration == 120

None == -1
\* The character '-' among the decimal digits 0..9 of an identity.
Dash == 10
Letter == 11

ping_ports == <<9696, 6962, 6963>>
test_ports == <<6962, 9696, 6963>>
tcp_ports == {21, 1194, 6567, 19999}

\* Environment: netspeed settings read from UT_DEFAULT_NETSPEED / UT_MAX_NETSPEED.
DefaultConfig == [default_netspeed |-> 40000, max_netspeed |-> 100000]
\* A deployment that swapped the two values.
SwappedConfig == [default_netspeed |-> 100000, max_netspeed |-> 40000]

\* Inputs of the network environment
PingPortSet == {ping_ports[i] : i \in 1..Len(ping_ports)}
RttValues == {12, 48}
PortOutcomes == {"reply", "timeout", "nosock"}
TcpOutcomes == {"raise", "refused", "sent", "send_raises"}
Payloads == {"SERVER_SHUTDOWN", "SERVER_SHUTDOWN\n", "noise", "undecodable"}
BaseLens == {96}
PadDigits == {3}

\* A healthy server and a healthy client host: every ping and probe is
\* answered on the first port, every socket operation succeeds.
Healthy ==
    [ cfgs |-> {DefaultConfig},
      ping_resps |-> {PingPortSet},
      rtts |-> {12},
      probe_outs |-> {[i \in 1..Len(test_ports) |-> "reply"]},
      udp_ok |-> {TRUE},
      tcp_ports |-> {21},
      tcp_outcomes |-> {"sent"},
      settings |-> {"default"} ]

\* The server answers liveness probes or not, port by port.
ProbeRegime ==
    [Healthy EXCEPT !.probe_outs = [1..Len(test_ports) -> PortOutcomes]]

\* The socket operations of the activities succeed or fail; the server is up
\* or down as a whole, or the host has no socket left for a probe.
TrafficRegime ==
    [Healthy EXCEPT !.cfgs = {DefaultConfig, SwappedConfig},
                    !.probe_outs = {[i \in 1..Len(test_ports) |-> "reply"],
                                    [i \in 1..Len(test_ports) |-> "timeout"],
                                    [i \in 1..Len(test_ports) |-> "nosock"]},
                    !.udp_ok = BOOLEAN,
                    !.tcp_ports = tcp_ports,
                    !.tcp_outcomes = TcpOutcomes,
                    !.settings = {"default", "high", "variable"}]

\* The server answers pings or not, port by port.
PingRegime ==
    [Healthy EXCEPT !.ping_resps = SUBSET PingPortSet,
                    !.rtts = RttValues]

VARIABLES
    clock,                    \* time.time()
    cfg,                      \* the netspeed environment of the process
    pc,                       \* driver thread: position in simulate_game_traffic
    running,                  \* GameClient.running
    received_shutdown,        \* GameClient.received_shutdown
    now,                      \* local `now` of the current iteration
    start_time,               \* local start_time of simulate_game_traffic
    last_ping,                \* local last_ping
    last_throughput_snapshot, \* local last_throughput_snapshot
    last_server_check,        \* local last_server_check
    consecutive_failures,     \* local consecutive_failures
    stats,                    \* GameClient.stats (a PlayerStats)
    reports,                  \* the REASON messages printed, in order
    lpc,                      \* listener thread: position
    shutdown_socket,          \* GameClient.shutdown_socket
    inbox,                    \* datagrams queued on the listener port
    iter,                     \* history: loop iterations begun
    iter_work,                \* history: work done in the current iteration
    probes,                   \* history: result of every liveness probe
    ping_env,                 \* history: environment and scan of the last ping
    ping_attempts,            \* history: ping attempts made
    tcp_attempts,             \* history: test_tcp_connection calls made
    send_attempts,            \* history: send_udp_packet calls made
    exceptions_raised,        \* history: exceptions raised inside activities
    exit_via,                 \* history: how the loop was left
    flag_at_exit,             \* history: received_shutdown when the loop was left
    msgs_sent,                \* history: datagrams delivered so far
    call,                     \* history: the last method called directly
    mpc,                      \* coordinator: position in run_complete_simulation
    duration,                 \* GameClientManager.duration
    num_players,              \* GameClientManager.num_players
    connections_per_player,   \* GameClientManager.connections_per_player
    clients,                  \* GameClientManager.clients
    threads,                  \* GameClientManager.threads
    player_id,                \* loop variable player_id of start_simulation
    connection_id,            \* loop variable connection_id of start_simulation
    joined,                   \* threads the coordinator has joined
    session_end_time,         \* GameClientManager.session_end_time
    report,                   \* what generate_report computed, once it has
    client_ops,               \* history: activities each connection has run
    listeners,                \* NFTablesTestServer.listeners, each with its thread
    spc,                      \* server main thread: position in run_tests
    broadcast,                \* locals of broadcast_shutdown
    stopped                   \* listeners shutdown_server has stopped so far

vars == << clock, cfg, pc, running, received_shutdown, now, start_time,
           last_ping, last_throughput_snapshot, last_server_check,
           consecutive_failures, stats, reports, lpc,
           shutdown_socket, inbox, iter, iter_work, probes, ping_env,
           ping_attempts, tcp_attempts, send_attempts, exceptions_raised,
           exit_via, flag_at_exit, msgs_sent, call, mpc, duration, num_players,
           connections_per_player, clients, threads, player_id, connection_id,
           joined, session_end_time, report, client_ops, listeners, spc,
           broadcast, stopped >>

server_vars == << listeners, spc, broadcast, stopped >>
manager_vars == << mpc, duration, num_players, connections_per_player, clients, threads,
                   player_id, connection_id, joined, session_end_time,
                   report, client_ops >>
driver_locals == << now, start_time, last_ping, last_throughput_snapshot,
                    last_server_check, consecutive_failures >>
listener_vars == << lpc, shutdown_socket, inbox, msgs_sent >>
loop_history == << iter, probes, ping_env, ping_attempts, exit_via, flag_at_exit >>
activity_history == << tcp_attempts, send_attempts, exceptions_raised, call >>

(***************************************************************************)
(* Arithmetic helpers                                                      *)
(***************************************************************************)
Min(a, b) == IF a < b THEN a ELSE b
Max(a, b) == IF a > b THEN a ELSE b

RECURSIVE GCD(_, _)
GCD(a, b) == IF b = 0 THEN a ELSE GCD(b, a % b)

\* Python's true division n / d (d > 0), kept exact as a reduced fraction.
Div(n, d) == LET g == GCD(n, d) IN
             IF n = 0 THEN [num |-> 0, den |-> 1]
             ELSE [num |-> n \div g, den |-> d \div g]

\* len(str(n)) for n >= 0
RECURSIVE Digits(_)
Digits(n) == IF n < 10 THEN 1 ELSE 1 + Digits(n \div 10)

(***************************************************************************)
(* PlayerStats                                                             *)
(***************************************************************************)
\* PlayerStats(player_id) after __post_init__, constructed at clock reading t.
NewPlayerStats(t) ==
    [ tcp_connections |-> 0, tcp_failed |-> 0, udp_packets_sent |-> 0,
      udp_responses |-> 0, udp_timeouts |-> 0, total_bytes_sent |-> 0,
      total_bytes_received |-> 0, errors |-> <<>>, ping_times |-> <<>>,
      ping_history |-> <<>>, throughput_history |-> <<>>, start_time |-> t ]

\* record_ping that leaves the time series out.
record_ping_times_only(st, ping_ms, t) ==
    [st EXCEPT !.ping_times = Append(@, ping_ms)]

\* PlayerStats.record_ping(ping_ms), called at clock reading t.
record_ping(st, ping_ms, t) ==
    [st EXCEPT !.ping_times = Append(@, ping_ms),
               !.ping_history = Append(@, [timestamp |-> t - st.start_time,
                                           ping_ms |-> ping_ms])]

\* A snapshot whose rate is taken over all the packets sent so far.
record_throughput_snapshot_cumulative(st, t) ==
    LET current_time == t - st.start_time
        th == st.throughput_history
        packets_per_sec ==
            IF Len(th) > 0
            THEN LET last_snapshot == th[Len(th)]
                     time_diff == current_time - last_snapshot.timestamp
                 IN IF time_diff > 0 THEN Div(st.udp_packets_sent, time_diff)
                    ELSE Div(0, 1)
            ELSE IF current_time > 0 THEN Div(st.udp_packets_sent, current_time)
                 ELSE Div(0, 1)
    IN [st EXCEPT !.throughput_history =
            Append(@, [timestamp |-> current_time,
                       packets_per_sec |-> packets_per_sec,
                       total_packets |-> st.udp_packets_sent,
                       total_bytes |-> st.total_bytes_sent])]

\* PlayerStats.record_throughput_snapshot(), called at clock reading t.
record_throughput_snapshot(st, t) ==
    LET current_time == t - st.start_time
        th == st.throughput_history
        packets_per_sec ==
            IF Len(th) > 0
            THEN LET last_snapshot == th[Len(th)]
                     time_diff == current_time - last_snapshot.timestamp
                     packet_diff == st.udp_packets_sent - last_snapshot.total_packets
                 IN IF time_diff > 0 THEN Div(packet_diff, time_diff) ELSE Div(0, 1)
            ELSE IF current_time > 0 THEN Div(st.udp_packets_sent, current_time)
                 ELSE Div(0, 1)
    IN [st EXCEPT !.throughput_history =
            Append(@, [timestamp |-> current_time,
                       packets_per_sec |-> packets_per_sec,
                       total_packets |-> st.udp_packets_sent,
                       total_bytes |-> st.total_bytes_sent])]

\* Python's None where a quotient is expected.
NoneFraction == [num |-> None, den |-> 1]

\* The three ping summaries of a list of measurements, None when it is empty.
ping_summary(valid_pings) ==
    LET values == {valid_pings[i] : i \in DOMAIN valid_pings}
        S[i \in 0..Len(valid_pings)] ==
            IF i = 0 THEN 0 ELSE S[i - 1] + valid_pings[i]
    IN [ min |-> IF valid_pings # << >>
                 THEN CHOOSE v \in values : \A w \in values : v <= w
                 ELSE None,
         max |-> IF valid_pings # << >>
                 THEN CHOOSE v \in values : \A w \in values : w <= v
                 ELSE None,
         avg |-> IF valid_pings # << >>
                 THEN Div(S[Len(valid_pings)], Len(valid_pings))
                 ELSE NoneFraction ]

\* get_stats_dict that reports 0 where there is no measurement.
get_stats_dict_zeroes(st) ==
    LET valid_pings == SelectSeq(st.ping_times, LAMBDA x : x # None)
        summary == ping_summary(valid_pings)
    IN [ tcp_connections |-> st.tcp_connections,
         tcp_failed |-> st.tcp_failed,
         udp_packets_sent |-> st.udp_packets_sent,
         udp_responses |-> st.udp_responses,
         udp_timeouts |-> st.udp_timeouts,
         total_bytes_sent |-> st.total_bytes_sent,
         total_bytes_received |-> st.total_bytes_received,
         error_count |-> Len(st.errors),
         errors |-> SubSeq(st.errors, 1, Min(10, Len(st.errors))),
         ping_min_ms |-> IF valid_pings # << >> THEN summary.min ELSE 0,
         ping_max_ms |-> IF valid_pings # << >> THEN summary.max ELSE 0,
         ping_avg_ms |-> IF valid_pings # << >> THEN summary.avg ELSE Div(0, 1),
         ping_count |-> Len(valid_pings),
         ping_history |-> st.ping_history,
         throughput_history |-> st.throughput_history ]

\* PlayerStats.get_stats_dict(); the average is kept as an exact fraction.
get_stats_dict(st) ==
    LET valid_pings == SelectSeq(st.ping_times, LAMBDA x : x # None)
        summary == ping_summary(valid_pings)
    IN [ tcp_connections |-> st.tcp_connections,
         tcp_failed |-> st.tcp_failed,
         udp_packets_sent |-> st.udp_packets_sent,
         udp_responses |-> st.udp_responses,
         udp_timeouts |-> st.udp_timeouts,
         total_bytes_sent |-> st.total_bytes_sent,
         total_bytes_received |-> st.total_bytes_received,
         error_count |-> Len(st.errors),
         errors |-> SubSeq(st.errors, 1, Min(10, Len(st.errors))),
         ping_min_ms |-> summary.min,
         ping_max_ms |-> summary.max,
         ping_avg_ms |-> summary.avg,
         ping_count |-> Len(valid_pings),
         ping_history |-> st.ping_history,
         throughput_history |-> st.throughput_history ]

(***************************************************************************)
(* GameClient: packet sizes                                                *)
(***************************************************************************)
\* A default payload from the quotient rounded up.
ut_default_payload_ceil(c) ==
    ((c.default_netspeed + ut_tickrate - 1) \div ut_tickrate) - ut_udp_overhead

ut_default_payload(c) == (c.default_netspeed \div ut_tickrate) - ut_udp_overhead
ut_max_payload(c) == (c.max_netspeed \div ut_tickrate) - ut_udp_overhead

\* len() of the payloads built by the activities
QueryLen == 20 + PlayerIdLen          \* \status\\info\Player{id}
JoinLen == 43 + PlayerIdLen           \* \connect\\name\Player{id}\team\red\skin\default
HeartbeatLen == 32 + PlayerIdLen      \* \heartbeat\player{id}\time{10 digits}
TcpDataLen(port) == 24 + PlayerIdLen + Digits(port)  \* Player{id} TCP test to port {port}

\* len("\\".join(f"player{i}\{3 digits}\{3 digits}\{d digits}" for i in range(n))):
\* n entries of 6 + len(str(i)) + 1 + 3 + 1 + 3 + 1 + d characters, n - 1
\* separators; an index i >= 10 has a second digit, i >= 100 a third.
JoinedStatesLen(n, d) ==
    IF n = 0 THEN 0
    ELSE n * (16 + d) + Max(0, n - 10) + Max(0, n - 100) + (n - 1)

\* len(base_data) after the padding step of _send_gameplay_packets: the
\* slice [:padding_needed] binds to the joined player states alone, the 11
\* characters of "\gamestate\" are added whole.
PaddedLen(base_len, target_payload_size, d) ==
    LET padding_needed == Max(0, target_payload_size - base_len)
        padding_len == 11 + Min(JoinedStatesLen(padding_needed \div 40, d),
                                padding_needed)
    IN IF padding_needed > 0 THEN base_len + padding_len ELSE base_len

\* The target payload sizes random.choices and random.randint can give for
\* a netspeed setting: the "variable" setting draws from default..max, here
\* its two ends and its middle, and from nothing when the range is empty.
TargetPayloadSizes(c, netspeed_setting) ==
    CASE netspeed_setting = "default" -> {ut_default_payload(c)}
      [] netspeed_setting = "high" -> {ut_max_payload(c)}
      [] netspeed_setting = "variable" ->
           IF ut_default_payload(c) > ut_max_payload(c) THEN {}
           ELSE {ut_default_payload(c), ut_max_payload(c),
                 (ut_default_payload(c) + ut_max_payload(c)) \div 2}

\* random.randint(default, max) of the "variable" setting raises ValueError
\* when the range is empty.
randint_raises(c, netspeed_setting) ==
    netspeed_setting = "variable" /\ ut_default_payload(c) > ut_max_payload(c)

(***************************************************************************)
(* GameClient: socket activities on the statistics                         *)
(***************************************************************************)
\* _send_udp_packet that swallows the exception without logging it.
send_udp_packet_silent(st, n, ok) ==
    IF ok
    THEN [st EXCEPT !.udp_packets_sent = @ + 1,
                    !.total_bytes_sent = @ + n,
                    !.udp_responses = @ + 1]
    ELSE st

\* _send_udp_packet that counts a response only when a reply was read, which
\* it never waits for.
send_udp_packet_no_response(st, n, ok) ==
    IF ok
    THEN [st EXCEPT !.udp_packets_sent = @ + 1,
                    !.total_bytes_sent = @ + n]
    ELSE [st EXCEPT !.errors = Append(@, "UDP")]

\* _send_udp_packet(port, data) with len(data.encode()) = n;
\* ok is FALSE when socket(), settimeout() or sendto() raises.
send_udp_packet(st, n, ok) ==
    IF ok
    THEN [st EXCEPT !.udp_packets_sent = @ + 1,
                    !.total_bytes_sent = @ + n,
                    !.udp_responses = @ + 1]
    ELSE [st EXCEPT !.errors = Append(@, "UDP")]

\* _test_tcp_connection() to `port`:
\*   "raise"       socket(), settimeout() or connect_ex() raises
\*   "refused"     connect_ex() returns a non-zero errno
\*   "sent"        connect_ex() returns 0 and send() succeeds
\*   "send_raises" connect_ex() returns 0 and send() raises
test_tcp_connection(st, port, outcome) ==
    LET n == TcpDataLen(port) IN
    CASE outcome = "raise" ->
           [st EXCEPT !.tcp_failed = @ + 1, !.errors = Append(@, "TCP")]
      [] outcome = "refused" ->
           [st EXCEPT !.tcp_failed = @ + 1]
      [] outcome = "sent" ->
           [st EXCEPT !.tcp_connections = @ + 1,
                      !.total_bytes_sent = @ + n,
                      !.total_bytes_received = @ + n]
      [] outcome = "send_raises" ->
           [st EXCEPT !.tcp_connections = @ + 1,
                      !.tcp_failed = @ + 1,
                      !.errors = Append(@, "TCP")]

(***************************************************************************)
(* GameClient: ping and liveness probe                                     *)
(***************************************************************************)
\* The port loop of ping_server: resp is the set of ports that answer, rtt the
\* round trip measured, t the clock reading.  Yields the statistics, whether a
\* round trip was measured and the number of ports tried.
RECURSIVE ping_port_loop(_, _, _, _, _)
ping_port_loop(st, i, resp, rtt, t) ==
    IF i > Len(ping_ports)
    THEN [stats |-> st, rtt_measured |-> FALSE, tried |-> i - 1]
    ELSE IF ping_ports[i] \in resp
         THEN [stats |-> record_ping(st, rtt, t), rtt_measured |-> TRUE, tried |-> i]
         ELSE ping_port_loop(st, i + 1, resp, rtt, t)

\* ping_server that drops the sample when no port replies.
ping_server_drops(st, resp, rtt, t) ==
    ping_port_loop(st, 1, resp, rtt, t)

\* One attempt (count=1) of ping_server.
ping_server(st, resp, rtt, t) ==
    LET r == ping_port_loop(st, 1, resp, rtt, t) IN
    IF r.rtt_measured THEN r
    ELSE [r EXCEPT !.stats = [st EXCEPT !.ping_times = Append(@, None)]]

\* An availability check that probes every port before it answers.
RECURSIVE is_server_available_exhaustive(_, _)
is_server_available_exhaustive(out, i) ==
    IF i > Len(test_ports)
    THEN [result |-> IF \E j \in DOMAIN out : out[j] = "reply"
                     THEN "true" ELSE "false",
          tried |-> i - 1]
    ELSE is_server_available_exhaustive(out, i + 1)

\* is_server_available(): out[i] is what happens on test_ports[i].  A socket()
\* that raises leaves `sock` unbound on the first port (the handler's `if sock`
\* then raises UnboundLocalError) and bound to the previous, closed socket on
\* the later ports.
RECURSIVE is_server_available(_, _)
is_server_available(out, i) ==
    IF i > Len(test_ports) THEN [result |-> "false", tried |-> i - 1]
    ELSE CASE out[i] = "reply" -> [result |-> "true", tried |-> i]
           [] out[i] = "timeout" -> is_server_available(out, i + 1)
           [] out[i] = "nosock" ->
                IF i = 1 THEN [result |-> "raise", tried |-> 1]
                ELSE is_server_available(out, i + 1)

\* _check_server_status that counts a failure only once.
check_server_status_stuck(failures, available) ==
    IF available THEN 0 ELSE Min(failures + 1, 1)

\* _check_server_status that keeps the count on a success.
check_server_status_noreset(failures, available) ==
    IF available THEN failures ELSE failures + 1

\* _check_server_status: the updated consecutive_failures.
check_server_status(failures, available) ==
    IF available THEN 0 ELSE failures + 1

(***************************************************************************)
(* Initial state: a constructed GameClient, simulate_game_traffic not yet  *)
(* called.                                                                 *)
(***************************************************************************)
NoPing == [resp |-> {}, tried |-> 0, rtt |-> None]
Report(at, reason) == [at |-> at, reason |-> reason]

\* A crash handler that sets self.crashed.
hasattr_crashed_set == exit_via = "exception"

\* hasattr(self, 'crashed'): no code of the class assigns the attribute.
hasattr_crashed == FALSE

\* No coordinator is running; d is the duration the process was given.
IdleManager(d) ==
    /\ mpc = "none"
    /\ duration = d
    /\ num_players = 0
    /\ connections_per_player = 0
    /\ clients = << >>
    /\ threads = << >>
    /\ player_id = 0
    /\ connection_id = 0
    /\ joined = 0
    /\ session_end_time = None
    /\ report = << >>
    /\ client_ops = << >>

\* A connection run on its own, with the default duration.
NoManager == IdleManager(default_duration)

\* server_config.py
TCP_PORTS ==
    {20, 21, 990, 1194, 3467, 6560, 6567, 6671, 8095, 9075, 9825,
     19998, 19999, 44578, 53691, 53990, 58581, 62500, 48481}
UDP_PORTS ==
    {6962, 6963, 7787, 7797, 9696, 9697, 5555, 5556, 7766, 7767,
     9090, 9091, 6669, 6670, 6979, 6996, 6997, 8888, 8889, 9669,
     9670, 5858, 5859, 4848, 4849}
DEFAULT_TCP_PORTS == << 21, 1194, 6567, 19999 >>
DEFAULT_UDP_PORTS == << 6962, 6963, 9090, 9091, 7787, 19999, 6979 >>

\* shutdown_ports = list(range(7778, 7788))
shutdown_ports == [i \in 1..(7788 - 7778) |-> 7778 + (i - 1)]

\* client_targets as broadcast_shutdown writes it down.
client_targets == << "172.19.0.3", "172.20.0.3", "game-client-container" >>

\* broadcast_shutdown not called yet.
NoBroadcast ==
    [ at |-> "idle", sock |-> "none", targets |-> << >>, target |-> 0,
      notification_sent |-> FALSE, attempts |-> 0 ]

\* NFTablesTestServer() as constructed: no listener, no thread.
NoServer ==
    /\ listeners = << >>
    /\ spc = "start"
    /\ broadcast = NoBroadcast
    /\ stopped = 0

\* No method has been called directly.
NoCall == [fn |-> "none"]

\* GameClient(player_id) as constructed, with its bookkeeping at rest.
NewGameClient(E) ==
    /\ clock = Epoch
    /\ cfg \in E.cfgs
    /\ pc = "idle"
    /\ running = FALSE
    /\ received_shutdown = FALSE
    /\ now = 0
    /\ start_time = 0
    /\ last_ping = 0
    /\ last_throughput_snapshot = 0
    /\ last_server_check = 0
    /\ consecutive_failures = 0
    /\ stats = NewPlayerStats(Epoch)
    /\ reports = <<>>
    /\ lpc = "none"
    /\ shutdown_socket = "none"
    /\ inbox = <<>>
    /\ iter = 0
    /\ iter_work = {}
    /\ probes = <<>>
    /\ ping_env = NoPing
    /\ ping_attempts = 0
    /\ tcp_attempts = 0
    /\ send_attempts = 0
    /\ exceptions_raised = 0
    /\ exit_via = "none"
    /\ flag_at_exit = FALSE
    /\ msgs_sent = 0
    /\ call = NoCall

InitIn(E) == NewGameClient(E) /\ NoManager /\ NoServer

(***************************************************************************)
(* The clock                                                               *)
(***************************************************************************)
\* Every pause of the driver is shorter than a second (time.sleep of 0.5 s at
\* the start, of at most 0.5 s after an activity, of 1/tickrate in a burst), so
\* the clock is advanced between two iterations, where the pauses add up.
Tick ==
    /\ pc = "loop"
    /\ iter > 0
    /\ clock + TickSeconds <= Epoch + MaxElapsed
    /\ clock' = clock + TickSeconds
    /\ UNCHANGED << cfg, manager_vars, server_vars, pc, running,
                    received_shutdown, driver_locals, stats, reports,
                    listener_vars, loop_history, iter_work,
                    activity_history >>

(***************************************************************************)
(* Driver thread: GameClient.simulate_game_traffic                         *)
(***************************************************************************)
\* The listener thread started while self.running is still unset.
Start_running_unset ==
    /\ pc = "idle"
    /\ lpc' = "setup"
    /\ pc' = "sleep"
    /\ UNCHANGED << clock, cfg, manager_vars, server_vars, running,
                    received_shutdown, driver_locals, stats, reports,
                    shutdown_socket, inbox, msgs_sent, loop_history,
                    iter_work, activity_history >>

\* running = True, start_shutdown_listener(); the thread then sleeps 0.5 s.
\* No other thread of the connection exists between the two statements.
Start ==
    /\ pc = "idle"
    /\ running' = TRUE
    /\ lpc' = "setup"
    /\ pc' = "sleep"
    /\ UNCHANGED << clock, cfg, manager_vars, server_vars, received_shutdown,
                    driver_locals, stats, reports, shutdown_socket, inbox,
                    msgs_sent, loop_history, iter_work, activity_history >>

\* start_time = time.time() and the locals set at the head of the try block.
EnterLoop ==
    /\ pc = "sleep"
    /\ start_time' = clock
    /\ last_ping' = 0
    /\ last_server_check' = 0
    /\ last_throughput_snapshot' = 0
    /\ consecutive_failures' = 0
    /\ pc' = "loop"
    /\ UNCHANGED << clock, cfg, manager_vars, server_vars, running,
                    received_shutdown, now, stats, reports, listener_vars,
                    loop_history, iter_work, activity_history >>

\* LoopTop without the shutdown check at the head of the iteration.
LoopTop_unchecked ==
    /\ pc = "loop"
    /\ running
    /\ iter < MaxIter
    /\ now' = clock
    /\ iter' = iter + 1
    /\ iter_work' = {}
    /\ ping_env' = NoPing
    /\ pc' = "ping"
    /\ UNCHANGED << clock, cfg, manager_vars, server_vars, running,
                    received_shutdown, start_time, last_ping,
                    last_throughput_snapshot, last_server_check,
                    consecutive_failures, stats, reports, listener_vars,
                    probes, ping_attempts, exit_via, flag_at_exit,
                    activity_history >>

\* A loop that also ends once `duration` seconds have passed.
LoopTop_timed ==
    /\ pc = "loop"
    /\ running
    /\ iter < MaxIter \/ received_shutdown
    /\ now' = clock
    /\ iter' = iter + 1
    /\ iter_work' = {}
    /\ ping_env' = NoPing
    /\ IF received_shutdown
       THEN /\ reports' = Append(reports, Report("loop", "graceful"))
            /\ pc' = "finally"
            /\ exit_via' = "shutdown"
            /\ flag_at_exit' = TRUE
       ELSE IF clock - start_time >= duration
       THEN /\ pc' = "finally"
            /\ exit_via' = "timer"
            /\ flag_at_exit' = FALSE
            /\ UNCHANGED reports
       ELSE /\ pc' = "ping"
            /\ UNCHANGED << reports, exit_via, flag_at_exit >>
    /\ UNCHANGED << clock, cfg, manager_vars, server_vars, running,
                    received_shutdown, start_time, last_ping,
                    last_throughput_snapshot, last_server_check,
                    consecutive_failures, stats, listener_vars, probes,
                    ping_attempts, activity_history >>

\* `while self.running:`, `now = time.time()` and the shutdown check.
LoopTop ==
    /\ pc = "loop"
    /\ running
    /\ iter < MaxIter \/ received_shutdown
    /\ now' = clock
    /\ iter' = iter + 1
    /\ iter_work' = {}
    /\ ping_env' = NoPing
    /\ IF received_shutdown
       THEN /\ reports' = Append(reports, Report("loop", "graceful"))
            /\ pc' = "finally"
            /\ exit_via' = "shutdown"
            /\ flag_at_exit' = TRUE
       ELSE /\ pc' = "ping"
            /\ UNCHANGED << reports, exit_via, flag_at_exit >>
    /\ UNCHANGED << clock, cfg, manager_vars, server_vars, running,
                    received_shutdown, start_time, last_ping,
                    last_throughput_snapshot, last_server_check,
                    consecutive_failures, stats, listener_vars, probes,
                    ping_attempts, activity_history >>

\* `if now - last_ping > ping_interval: self.ping_server(count=1)`
PingStep(E) ==
    /\ pc = "ping"
    /\ pc' = "snapshot"
    /\ IF now - last_ping > ping_interval
       THEN /\ \E resp \in E.ping_resps, rtt \in E.rtts :
                  LET r == ping_server(stats, resp, rtt, clock) IN
                  /\ stats' = r.stats
                  /\ ping_env' = [resp |-> resp, tried |-> r.tried, rtt |-> rtt]
            /\ last_ping' = now
            /\ ping_attempts' = ping_attempts + 1
            /\ iter_work' = iter_work \cup {"ping"}
       ELSE UNCHANGED << stats, ping_env, last_ping, ping_attempts, iter_work >>
    /\ UNCHANGED << clock, cfg, manager_vars, server_vars, running,
                    received_shutdown, now, start_time,
                    last_throughput_snapshot, last_server_check,
                    consecutive_failures, reports, listener_vars, iter,
                    probes, exit_via, flag_at_exit, activity_history >>

\* `if now - last_throughput_snapshot > throughput_snapshot_interval: ...`
SnapshotStep ==
    /\ pc = "snapshot"
    /\ pc' = "check"
    /\ IF now - last_throughput_snapshot > throughput_snapshot_interval
       THEN /\ stats' = record_throughput_snapshot(stats, clock)
            /\ last_throughput_snapshot' = now
            /\ iter_work' = iter_work \cup {"snapshot"}
       ELSE UNCHANGED << stats, last_throughput_snapshot, iter_work >>
    /\ UNCHANGED << clock, cfg, manager_vars, server_vars, running,
                    received_shutdown, now, start_time, last_ping,
                    last_server_check, consecutive_failures, reports,
                    listener_vars, loop_history, activity_history >>

\* `if now - last_server_check > server_check_interval: ...` with the
\* threshold test; an exception of is_server_available leaves the try block.
CheckStep(E) ==
    /\ pc = "check"
    /\ IF now - last_server_check > server_check_interval
       THEN \E out \in E.probe_outs :
            LET r == is_server_available(out, 1)
                failures == check_server_status(consecutive_failures,
                                                r.result = "true")
            IN /\ probes' = Append(probes, r.result)
               /\ iter_work' = iter_work \cup {"probe"}
               /\ IF r.result = "raise"
                  THEN /\ pc' = "except"
                       /\ exit_via' = "exception"
                       /\ flag_at_exit' = received_shutdown
                       /\ UNCHANGED << consecutive_failures, last_server_check,
                                       reports >>
                  ELSE /\ consecutive_failures' = failures
                       /\ IF failures >= max_consecutive_failures
                          THEN /\ reports' = Append(reports,
                                                    Report("loop", "unreachable"))
                               /\ pc' = "finally"
                               /\ exit_via' = "threshold"
                               /\ flag_at_exit' = received_shutdown
                               /\ UNCHANGED last_server_check
                          ELSE /\ last_server_check' = now
                               /\ pc' = "activity"
                               /\ UNCHANGED << reports, exit_via,
                                               flag_at_exit >>
       ELSE /\ pc' = "activity"
            /\ UNCHANGED << probes, iter_work, consecutive_failures,
                            last_server_check, reports, exit_via,
                            flag_at_exit >>
    /\ UNCHANGED << clock, cfg, manager_vars, server_vars, running,
                    received_shutdown, now, start_time, last_ping,
                    last_throughput_snapshot, stats, listener_vars, iter,
                    ping_env, ping_attempts, activity_history >>

(***************************************************************************)
(* Driver thread: the traffic activity of an iteration (the inner try      *)
(* block).  random.choices picks the activity; each socket operation       *)
(* succeeds or raises as the environment decides.                          *)
(***************************************************************************)
Fails(ok) == IF ok THEN 0 ELSE 1

\* What every activity leaves alone.
ActivityFrame ==
    UNCHANGED << clock, cfg, manager_vars, server_vars, running,
                 received_shutdown, now, start_time, last_ping,
                 last_throughput_snapshot, last_server_check,
                 consecutive_failures, reports, listener_vars, loop_history,
                 call >>

\* activity == 'query': _send_server_query sends to two sampled ports.
SendServerQuery(E) ==
    /\ pc = "activity"
    /\ send_attempts + 2 <= MaxSends
    /\ \E ok1 \in E.udp_ok, ok2 \in E.udp_ok :
          /\ exceptions_raised + Fails(ok1) + Fails(ok2) <= MaxFaults
          /\ stats' = send_udp_packet(send_udp_packet(stats, QueryLen, ok1),
                                      QueryLen, ok2)
          /\ exceptions_raised' = exceptions_raised + Fails(ok1) + Fails(ok2)
    /\ send_attempts' = send_attempts + 2
    /\ iter_work' = iter_work \cup {"activity"}
    /\ pc' = "loop"
    /\ UNCHANGED tcp_attempts
    /\ ActivityFrame

\* activity == 'join': _attempt_server_join sends one connect packet.
AttemptServerJoin(E) ==
    /\ pc = "activity"
    /\ send_attempts + 1 <= MaxSends
    /\ \E ok \in E.udp_ok :
          /\ exceptions_raised + Fails(ok) <= MaxFaults
          /\ stats' = send_udp_packet(stats, JoinLen, ok)
          /\ exceptions_raised' = exceptions_raised + Fails(ok)
    /\ send_attempts' = send_attempts + 1
    /\ iter_work' = iter_work \cup {"activity"}
    /\ pc' = "loop"
    /\ UNCHANGED tcp_attempts
    /\ ActivityFrame

\* activity == 'heartbeat': _send_heartbeat sends one keepalive packet.
SendHeartbeat(E) ==
    /\ pc = "activity"
    /\ send_attempts + 1 <= MaxSends
    /\ \E ok \in E.udp_ok :
          /\ exceptions_raised + Fails(ok) <= MaxFaults
          /\ stats' = send_udp_packet(stats, HeartbeatLen, ok)
          /\ exceptions_raised' = exceptions_raised + Fails(ok)
    /\ send_attempts' = send_attempts + 1
    /\ iter_work' = iter_work \cup {"activity"}
    /\ pc' = "loop"
    /\ UNCHANGED tcp_attempts
    /\ ActivityFrame

\* activity == 'tcp_test': _test_tcp_connection.
TestTcpConnection(E) ==
    /\ pc = "activity"
    /\ tcp_attempts < MaxTcp
    /\ \E port \in E.tcp_ports, outcome \in E.tcp_outcomes :
          LET raised == IF outcome \in {"raise", "send_raises"} THEN 1 ELSE 0 IN
          /\ exceptions_raised + raised <= MaxFaults
          /\ stats' = test_tcp_connection(stats, port, outcome)
          /\ exceptions_raised' = exceptions_raised + raised
    /\ tcp_attempts' = tcp_attempts + 1
    /\ iter_work' = iter_work \cup {"activity"}
    /\ pc' = "loop"
    /\ UNCHANGED send_attempts
    /\ ActivityFrame

\* The calls of _send_udp_packet made by a burst: packets[i] is the payload
\* length and the fate of the i-th one.
RECURSIVE send_udp_packets(_, _)
send_udp_packets(st, packets) ==
    IF packets = << >> THEN st
    ELSE send_udp_packets(
             send_udp_packet(st, Head(packets).n_bytes, Head(packets).ok),
             Tail(packets))

\* activity == 'gameplay': _send_gameplay_packets sends a burst of
\* packets_in_burst padded packets.  Of the packets handled, n_fail raise in
\* _send_udp_packet, n_high are sent with the payload of the "high" setting and
\* the rest with the payload of the "default" setting (the "variable" setting
\* is drawn at the ends of its range, which are those two).  When
\* random.randint raises ValueError the burst ends after `handled` packets: the
\* exception escapes _send_gameplay_packets and is caught by the guard of the
\* iteration, which appends "Activity gameplay: ..." to the error log.
SendGameplayPackets(E) ==
    /\ pc = "activity"
    /\ \E packets_in_burst \in MinBurst..Min(MaxBurst, MaxSends - send_attempts),
          base_len \in BaseLens, d \in PadDigits,
          raises \in {FALSE} \cup {"variable" \in E.settings} :
       \E handled \in (IF raises THEN 0..(packets_in_burst - 1)
                                 ELSE {packets_in_burst}) :
       \E n_fail \in (IF FALSE \in E.udp_ok
                      THEN 0..Min(handled, MaxFaults - exceptions_raised)
                      ELSE {0}) :
       \E n_high \in (IF E.settings \subseteq {"default"}
                      THEN {0} ELSE 0..(handled - n_fail)) :
          LET raised == IF raises THEN 1 ELSE 0
              default_len == PaddedLen(base_len, ut_default_payload(cfg), d)
              high_len == PaddedLen(base_len, ut_max_payload(cfg), d)
              packets == [i \in 1..handled |->
                             IF i <= n_fail THEN [n_bytes |-> 0, ok |-> FALSE]
                             ELSE IF i <= n_fail + n_high
                                  THEN [n_bytes |-> high_len, ok |-> TRUE]
                                  ELSE [n_bytes |-> default_len, ok |-> TRUE]]
              st3 == send_udp_packets(stats, packets)
          IN /\ raises => randint_raises(cfg, "variable")
             /\ exceptions_raised + n_fail + raised <= MaxFaults
             /\ stats' = IF raises
                         THEN [st3 EXCEPT !.errors = Append(@, "Activity")]
                         ELSE st3
             /\ exceptions_raised' = exceptions_raised + n_fail + raised
             /\ send_attempts' = send_attempts + handled
    /\ iter_work' = iter_work \cup {"activity"}
    /\ pc' = "loop"
    /\ UNCHANGED tcp_attempts
    /\ ActivityFrame

(***************************************************************************)
(* Driver thread: leaving the loop                                         *)
(***************************************************************************)
\* `except Exception as e:` prints "Simulation crashed ... (REASON: Unexpected
\* error ...)".
ExceptStep ==
    /\ pc = "except"
    /\ reports' = Append(reports, Report("except", "crashed"))
    /\ pc' = "finally"
    /\ UNCHANGED << clock, cfg, manager_vars, server_vars, running,
                    received_shutdown, driver_locals, stats, listener_vars,
                    loop_history, iter_work, activity_history >>

\* A finally clause that also clears the shutdown flag for a next run.
FinallyStep_clears_flag ==
    /\ pc = "finally"
    /\ running' = FALSE
    /\ received_shutdown' = FALSE
    /\ pc' = "summary"
    /\ UNCHANGED << clock, cfg, manager_vars, server_vars, driver_locals,
                    stats, reports, listener_vars, loop_history, iter_work,
                    activity_history >>

\* `finally: self.running = False`
FinallyStep ==
    /\ pc = "finally"
    /\ running' = FALSE
    /\ pc' = "summary"
    /\ UNCHANGED << clock, cfg, manager_vars, server_vars, received_shutdown,
                    driver_locals, stats, reports, listener_vars,
                    loop_history, iter_work, activity_history >>

\* The final summary of the finally block.
final_reports(shutdown) ==
    IF shutdown THEN << Report("finally", "graceful") >>
    ELSE IF ~hasattr_crashed THEN << Report("finally", "unreachable") >>
    ELSE << >>

SummaryStep ==
    /\ pc = "summary"
    /\ reports' = reports \o final_reports(received_shutdown)
    /\ pc' = "done"
    /\ UNCHANGED << clock, cfg, manager_vars, server_vars, running,
                    received_shutdown, driver_locals, stats, listener_vars,
                    loop_history, iter_work, activity_history >>

(***************************************************************************)
(* Listener thread: GameClient.start_shutdown_listener                     *)
(***************************************************************************)
\* message = data.decode().strip()
Strip(m) == IF m = "SERVER_SHUTDOWN\n" THEN "SERVER_SHUTDOWN" ELSE m

\* _setup_shutdown_socket: "bound" after bind() and settimeout(1.0);
\* "unbound" when setsockopt() or bind() raises (the socket object is kept,
\* without a timeout); "none" when socket() raises.
ListenerSetup ==
    /\ lpc = "setup"
    /\ shutdown_socket' \in {"bound", "unbound", "none"}
    /\ lpc' = "check"
    /\ UNCHANGED << clock, cfg, manager_vars, server_vars, pc, running,
                    received_shutdown, driver_locals, stats, reports, inbox,
                    msgs_sent, loop_history, iter_work, activity_history >>

\* `while self.running and not self.received_shutdown:`
ListenerCheck ==
    /\ lpc = "check"
    /\ lpc' = IF running /\ ~received_shutdown THEN "recv" ELSE "cleanup"
    /\ UNCHANGED << clock, cfg, manager_vars, server_vars, pc, running,
                    received_shutdown, driver_locals, stats, reports,
                    shutdown_socket, inbox, msgs_sent, loop_history,
                    iter_work, activity_history >>

\* The body of the loop: recvfrom, decode, compare.  recvfrom on the unbound
\* socket has no timeout and no datagram can reach it: the thread stays there.
ListenerRecv ==
    /\ lpc = "recv"
    /\ shutdown_socket # "unbound"
    /\ IF shutdown_socket = "none" \/ shutdown_socket = "closed"
       THEN /\ lpc' = "cleanup"                      \* except Exception: break
            /\ UNCHANGED << received_shutdown, inbox >>
       ELSE IF inbox = << >>
       THEN /\ lpc' = "check"                        \* except socket.timeout
            /\ UNCHANGED << received_shutdown, inbox >>
       ELSE /\ inbox' = Tail(inbox)
            /\ IF Head(inbox) = "undecodable"
               THEN /\ lpc' = "cleanup"              \* UnicodeDecodeError: break
                    /\ UNCHANGED received_shutdown
               ELSE IF Strip(Head(inbox)) = "SERVER_SHUTDOWN"
               THEN /\ received_shutdown' = TRUE
                    /\ lpc' = "cleanup"
               ELSE /\ lpc' = "check"
                    /\ UNCHANGED received_shutdown
    /\ UNCHANGED << clock, cfg, manager_vars, server_vars, pc, running,
                    driver_locals, stats, reports, shutdown_socket, msgs_sent,
                    loop_history, iter_work, activity_history >>

\* A listener thread that ends without calling _cleanup_shutdown_socket.
ListenerCleanup_skipped ==
    /\ lpc = "cleanup"
    /\ lpc' = "ended"
    /\ UNCHANGED << clock, cfg, manager_vars, server_vars, pc, running,
                    received_shutdown, driver_locals, stats, reports,
                    shutdown_socket, inbox, msgs_sent, loop_history,
                    iter_work, activity_history >>

\* _cleanup_shutdown_socket
ListenerCleanup ==
    /\ lpc = "cleanup"
    /\ shutdown_socket' = IF shutdown_socket = "none" THEN "none" ELSE "closed"
    /\ lpc' = "ended"
    /\ UNCHANGED << clock, cfg, manager_vars, server_vars, pc, running,
                    received_shutdown, driver_locals, stats, reports, inbox,
                    msgs_sent, loop_history, iter_work, activity_history >>

(***************************************************************************)
(* Environment: a datagram reaches the bound listener port                 *)
(***************************************************************************)
Deliver ==
    /\ shutdown_socket = "bound"
    /\ msgs_sent < MaxMsgs
    /\ \E m \in Payloads : inbox' = Append(inbox, m)
    /\ msgs_sent' = msgs_sent + 1
    /\ UNCHANGED << clock, cfg, manager_vars, server_vars, pc, running,
                    received_shutdown, driver_locals, stats, reports, lpc,
                    shutdown_socket, loop_history, iter_work,
                    activity_history >>

(***************************************************************************)
(* Specifications                                                          *)
(***************************************************************************)
\* The driver thread under the regime E.
Driver(E) ==
    \/ Tick
    \/ Start
    \/ EnterLoop
    \/ LoopTop
    \/ PingStep(E)
    \/ SnapshotStep
    \/ CheckStep(E)
    \/ SendServerQuery(E)
    \/ AttemptServerJoin(E)
    \/ SendHeartbeat(E)
    \/ TestTcpConnection(E)
    \/ SendGameplayPackets(E)

\* The ways out of the loop.
Leave ==
    \/ ExceptStep
    \/ FinallyStep
    \/ SummaryStep

\* The shutdown-listener thread and the datagrams sent to its port.
Listener ==
    \/ ListenerSetup
    \/ ListenerCheck
    \/ ListenerRecv
    \/ ListenerCleanup
    \/ Deliver

Init == InitIn(ProbeRegime)

Next ==
    \/ Driver(ProbeRegime)
    \/ Leave
    \/ Listener

\* Driver and listener; the liveness probes vary.
Spec == Init /\ [][Next]_vars

\* Spec under the thread scheduler: a thread that can take a step is not
\* held back for ever.  Nothing obliges the environment to send a datagram
\* or the clock to be read again.
SpecLive ==
    /\ Init
    /\ [][Next]_vars
    /\ WF_vars(Driver(ProbeRegime))
    /\ WF_vars(Leave)
    /\ WF_vars(ListenerSetup)
    /\ WF_vars(ListenerCheck)
    /\ WF_vars(ListenerRecv)
    /\ WF_vars(ListenerCleanup)

\* The durations a simulation is started with: none at all, one the run
\* outlasts, the default.
Durations == {0, TickSeconds, default_duration}

InitDuration ==
    NewGameClient(ProbeRegime) /\ NoServer /\ \E d \in Durations : IdleManager(d)

\* Spec for a process started with any of the durations.
SpecDuration == InitDuration /\ [][Next]_vars

InitTraffic == InitIn(TrafficRegime)

NextTraffic ==
    \/ Driver(TrafficRegime)
    \/ Leave

\* Driver alone (the listener waits on a silent port); the socket operations
\* of the activities vary.
SpecTraffic == InitTraffic /\ [][NextTraffic]_vars

InitPing == InitIn(PingRegime)

NextPing == Driver(PingRegime)

\* Driver alone; the answers to pings vary.  The server answers every
\* liveness probe, so the loop is not left.
SpecPing == InitPing /\ [][NextPing]_vars

(***************************************************************************)
(* PlayerStats called directly (specification SpecStats)                   *)
(***************************************************************************)
\* The latencies a caller may hand to record_ping: a measurement or None.
Latencies == RttValues \cup {None}

\* stats.record_ping(v) on an object no driver is using.
CallRecordPing ==
    /\ pc = "idle"
    /\ Len(stats.ping_times) < MaxCalls
    /\ \E v \in Latencies : stats' = record_ping(stats, v, clock)
    /\ UNCHANGED << clock, cfg, manager_vars, server_vars, pc, running,
                    received_shutdown, driver_locals, reports, listener_vars,
                    loop_history, iter_work, activity_history >>

\* Time passes between two calls.
Elapse ==
    /\ pc = "idle"
    /\ clock + TickSeconds <= Epoch + MaxElapsed
    /\ clock' = clock + TickSeconds
    /\ UNCHANGED << cfg, manager_vars, server_vars, pc, running,
                    received_shutdown, driver_locals, stats, reports,
                    listener_vars, loop_history, iter_work,
                    activity_history >>

InitStats == InitIn(Healthy)

NextStats ==
    \/ CallRecordPing
    \/ Elapse

SpecStats == InitStats /\ [][NextStats]_vars

(***************************************************************************)
(* Throughput snapshots taken directly (specification SpecSnapshot)        *)
(***************************************************************************)
\* stats.record_throughput_snapshot() on an object no driver is using.
CallRecordThroughputSnapshot ==
    /\ pc = "idle"
    /\ Len(stats.throughput_history) < MaxCalls
    /\ stats' = record_throughput_snapshot(stats, clock)
    /\ UNCHANGED << clock, cfg, manager_vars, server_vars, pc, running,
                    received_shutdown, driver_locals, reports, listener_vars,
                    loop_history, iter_work, activity_history >>

\* _send_udp_packet between two snapshots: the packet leaves or the send
\* raises.
CallSendBetweenSnapshots ==
    /\ pc = "idle"
    /\ send_attempts < MaxSends
    /\ \E ok \in BOOLEAN :
          /\ exceptions_raised + Fails(ok) <= MaxFaults
          /\ stats' = send_udp_packet(stats, JoinLen, ok)
          /\ exceptions_raised' = exceptions_raised + Fails(ok)
    /\ send_attempts' = send_attempts + 1
    /\ UNCHANGED << clock, cfg, manager_vars, server_vars, pc, running,
                    received_shutdown, driver_locals, reports, listener_vars,
                    loop_history, iter_work, tcp_attempts, call >>

\* time.time() is the wall clock: an adjustment may set it back.
ClockSetBack ==
    /\ pc = "idle"
    /\ clock - TickSeconds >= 0
    /\ clock' = clock - TickSeconds
    /\ UNCHANGED << cfg, manager_vars, server_vars, pc, running,
                    received_shutdown, driver_locals, stats, reports,
                    listener_vars, loop_history, iter_work,
                    activity_history >>

InitSnapshot == InitIn(Healthy)

NextSnapshot ==
    \/ CallRecordThroughputSnapshot
    \/ CallSendBetweenSnapshots
    \/ Elapse
    \/ ClockSetBack

SpecSnapshot == InitSnapshot /\ [][NextSnapshot]_vars

(***************************************************************************)
(* GameClient methods called directly (specification SpecCalls)            *)
(***************************************************************************)
\* What _send_udp_packet meets: the packet leaves, socket() raises, or
\* sendto() raises on the socket just made (the server name does not resolve,
\* the network is unreachable).
UdpSendOutcomes == {"sent", "nosock", "sendto_raises"}

\* The socket of _send_udp_packet when the call returns.  Only the success
\* path calls close(); the handler of lines 450-451 does not, and the socket
\* stays open until the interpreter finalizes the object, if it does.
udp_socket_at_return(outcome, finalized) ==
    CASE outcome = "sent" -> "closed"
      [] outcome = "nosock" -> "none"
      [] outcome = "sendto_raises" -> IF finalized THEN "closed" ELSE "open"

\* The socket of _test_tcp_connection when the call returns: close() is
\* called after connect_ex() returned and send() did not raise; `created`
\* tells whether the operation that raised came after socket().
tcp_socket_at_return(outcome, created, finalized) ==
    CASE outcome \in {"refused", "sent"} -> "closed"
      [] outcome = "send_raises" -> IF finalized THEN "closed" ELSE "open"
      [] outcome = "raise" ->
           IF ~created THEN "none"
           ELSE IF finalized THEN "closed" ELSE "open"

\* client._send_udp_packet(port, data) on a client whose driver is not running.
CallSendUdpPacket ==
    /\ pc = "idle"
    /\ send_attempts < MaxSends
    /\ \E outcome \in UdpSendOutcomes, finalized \in BOOLEAN :
          /\ exceptions_raised + Fails(outcome = "sent") <= MaxFaults
          /\ stats' = send_udp_packet(stats, JoinLen, outcome = "sent")
          /\ exceptions_raised' = exceptions_raised + Fails(outcome = "sent")
          /\ call' = [ fn |-> "_send_udp_packet",
                       outcome |-> outcome,
                       socket |-> udp_socket_at_return(outcome, finalized) ]
    /\ send_attempts' = send_attempts + 1
    /\ UNCHANGED << clock, cfg, manager_vars, server_vars, pc, running,
                    received_shutdown, driver_locals, reports, listener_vars,
                    loop_history, iter_work, tcp_attempts >>

\* client._test_tcp_connection() on a client whose driver is not running.
CallTestTcpConnection ==
    /\ pc = "idle"
    /\ tcp_attempts < MaxTcp
    /\ \E port \in tcp_ports, outcome \in TcpOutcomes,
          created \in BOOLEAN, finalized \in BOOLEAN :
          /\ stats' = test_tcp_connection(stats, port, outcome)
          /\ call' = [ fn |-> "_test_tcp_connection",
                       outcome |-> outcome,
                       socket |-> tcp_socket_at_return(outcome, created,
                                                       finalized) ]
    /\ tcp_attempts' = tcp_attempts + 1
    /\ UNCHANGED << clock, cfg, manager_vars, server_vars, pc, running,
                    received_shutdown, driver_locals, reports, listener_vars,
                    loop_history, iter_work, send_attempts,
                    exceptions_raised >>

\* client.is_server_available() on a client whose driver is not running;
\* out[i] is what the probe of test_ports[i] would meet.
CallIsServerAvailable ==
    /\ pc = "idle"
    /\ \E out \in [1..Len(test_ports) -> PortOutcomes] :
          LET r == is_server_available(out, 1) IN
          call' = [ fn |-> "is_server_available",
                    out |-> out,
                    result |-> r.result,
                    tried |-> r.tried ]
    /\ UNCHANGED << clock, cfg, manager_vars, server_vars, pc, running,
                    received_shutdown, driver_locals, stats, reports,
                    listener_vars, loop_history, iter_work, tcp_attempts,
                    send_attempts, exceptions_raised >>

\* client._send_gameplay_packets() on a client whose driver is not running:
\* a burst of packets_in_burst packets, the i-th built for the target size
\* targets[i] and padded; the sends of the packets in `failing` raise inside
\* _send_udp_packet.  When the range of the "variable" setting is empty,
\* random.randint may raise after `handled` packets and the exception ends
\* the burst.  The burst is recorded packet by packet.
CallSendGameplayPackets ==
    /\ pc = "idle"
    /\ \E packets_in_burst \in MinBurst..Min(MaxBurst, MaxSends - send_attempts),
          base_len \in BaseLens, d \in PadDigits :
       \E handled \in (IF randint_raises(cfg, "variable")
                       THEN 0..packets_in_burst ELSE {packets_in_burst}) :
       \E targets \in [1..handled ->
                          UNION {TargetPayloadSizes(cfg, setting) :
                                    setting \in TrafficRegime.settings}],
          failing \in SUBSET (1..handled) :
          LET packets == [i \in 1..handled |->
                             [n_bytes |-> PaddedLen(base_len, targets[i], d),
                              ok |-> i \notin failing]]
          IN /\ exceptions_raised + Cardinality(failing) <= MaxFaults
             /\ stats' = send_udp_packets(stats, packets)
             /\ exceptions_raised' = exceptions_raised + Cardinality(failing)
             /\ send_attempts' = send_attempts + handled
             /\ call' = [ fn |-> "_send_gameplay_packets",
                          raised |-> handled < packets_in_burst,
                          packets |-> [i \in 1..handled |->
                                          [ base_len |-> base_len,
                                            target_payload_size |-> targets[i],
                                            payload_len |-> packets[i].n_bytes ]] ]
    /\ UNCHANGED << clock, cfg, manager_vars, server_vars, pc, running,
                    received_shutdown, driver_locals, reports, listener_vars,
                    loop_history, iter_work, tcp_attempts >>

InitCalls == InitIn(TrafficRegime)

NextCalls ==
    \/ CallSendUdpPacket
    \/ CallTestTcpConnection
    \/ CallIsServerAvailable
    \/ CallSendGameplayPackets

\* The methods of one client called one after the other, as a test does.
SpecCalls == InitCalls /\ [][NextCalls]_vars

(***************************************************************************)
(* GameClientManager (specifications SpecFleet and SpecReport)             *)
(* (src/src/client/client_manager.py)                                      *)
(***************************************************************************)
\* str(n) for n >= 0, as the sequence of its decimal digits.
RECURSIVE DecimalDigits(_)
DecimalDigits(n) ==
    IF n < 10 THEN << n >> ELSE Append(DecimalDigits(n \div 10), n % 10)

\* An identity made of the player number alone.
FormatId_player_only(p, c) == DecimalDigits(p)

\* f"{player_id}-{connection_id}"
FormatId(p, c) == DecimalDigits(p) \o << Dash >> \o DecimalDigits(c)

\* int(text) for a sequence of decimal digits.
RECURSIVE ParseInt(_)
ParseInt(digits) ==
    IF digits = << >> THEN 0
    ELSE 10 * ParseInt(SubSeq(digits, 1, Len(digits) - 1)) + digits[Len(digits)]

\* The player number _setup_shutdown_socket parses from the identity:
\* int(str(player_id).split('-')[0]), or 1 when that is no number (int()
\* raises ValueError on the empty text and on a character that is no digit).
player_num(id) ==
    LET dashes == {i \in DOMAIN id : id[i] = Dash}
        first == IF dashes = {} THEN Len(id) + 1
                 ELSE CHOOSE i \in dashes : \A j \in dashes : i <= j
        head == SubSeq(id, 1, first - 1)
    IN IF head = << >> \/ \E i \in DOMAIN head : head[i] \notin 0..9
       THEN 1
       ELSE ParseInt(head)

\* A listener port that grows with the player number.
listen_port_unwrapped(id) == shutdown_port_base + player_num(id)

\* listen_port = 7778 + (player_num % 10)
listen_port(id) == shutdown_port_base + (player_num(id) % shutdown_port_slots)

\* The statistics object of connection k replaced by st: every GameClient
\* owns the PlayerStats its constructor made.
with_shared_stats(cs, k, st) ==
    [j \in DOMAIN cs |-> [cs[j] EXCEPT !.stats = st]]

with_stats(cs, k, st) == [cs EXCEPT ![k].stats = st]

\* The thread of connection k ends: simulate_game_traffic returns, its
\* try/except/finally having kept every exception inside the thread.
end_all_threads(ts, k) == [j \in DOMAIN ts |-> "dead"]

end_thread(ts, k) == [ts EXCEPT ![k] = "dead"]

RECURSIVE SumOver(_, _)
\* sum(f(c) for c in seq), f given by the field name
SumOver(seq, field) ==
    IF seq = << >> THEN 0
    ELSE (CASE field = "tcp_connections" -> Head(seq).stats.tcp_connections
            [] field = "tcp_failed" -> Head(seq).stats.tcp_failed
            [] field = "udp_packets_sent" -> Head(seq).stats.udp_packets_sent
            [] field = "udp_responses" -> Head(seq).stats.udp_responses
            [] field = "udp_timeouts" -> Head(seq).stats.udp_timeouts
            [] field = "total_bytes_sent" -> Head(seq).stats.total_bytes_sent
            [] field = "total_bytes_received" -> Head(seq).stats.total_bytes_received
            [] field = "errors" -> Len(Head(seq).stats.errors))
         + SumOver(Tail(seq), field)

\* [p for c in self.clients for p in c.stats.ping_times], the lost pings
\* included.
RECURSIVE all_pings_unfiltered(_)
all_pings_unfiltered(seq) ==
    IF seq = << >> THEN << >>
    ELSE Head(seq).stats.ping_times \o all_pings_unfiltered(Tail(seq))

\* [p for c in self.clients for p in c.stats.ping_times if p is not None]
RECURSIVE all_pings(_)
all_pings(seq) ==
    IF seq = << >> THEN << >>
    ELSE SelectSeq(Head(seq).stats.ping_times, LAMBDA x : x # None)
         \o all_pings(Tail(seq))

RECURSIVE SumSeq(_)
SumSeq(q) == IF q = << >> THEN 0 ELSE Head(q) + SumSeq(Tail(q))

\* _calculate_aggregate_stats; the average is kept as an exact fraction.
calculate_aggregate_stats(cs) ==
    LET pings == all_pings(cs)
        values == {pings[i] : i \in DOMAIN pings}
    IN [ total_players |-> Len(cs),
         total_tcp_connections |-> SumOver(cs, "tcp_connections"),
         total_tcp_failed |-> SumOver(cs, "tcp_failed"),
         total_udp_packets |-> SumOver(cs, "udp_packets_sent"),
         total_udp_responses |-> SumOver(cs, "udp_responses"),
         total_udp_timeouts |-> SumOver(cs, "udp_timeouts"),
         total_bytes_sent |-> SumOver(cs, "total_bytes_sent"),
         total_bytes_received |-> SumOver(cs, "total_bytes_received"),
         total_errors |-> SumOver(cs, "errors"),
         ping_min_ms |-> IF pings = << >> THEN None
                         ELSE CHOOSE v \in values : \A w \in values : v <= w,
         ping_max_ms |-> IF pings = << >> THEN None
                         ELSE CHOOSE v \in values : \A w \in values : w <= v,
         ping_avg_ms |-> IF pings = << >> THEN NoneFraction
                         ELSE Div(SumSeq(pings), Len(pings)),
         ping_count |-> Len(pings) ]

\* _calculate_udp_success_rate, as an exact fraction
calculate_udp_success_rate(total_stats) ==
    IF total_stats.total_udp_packets > 0
    THEN Div(total_stats.total_udp_responses * 100, total_stats.total_udp_packets)
    ELSE Div(0, 1)

\* A success rate over the successes alone.
calculate_tcp_success_rate_of_successes(total_stats) ==
    IF total_stats.total_tcp_connections > 0
    THEN Div(total_stats.total_tcp_connections * 100,
             total_stats.total_tcp_connections)
    ELSE Div(0, 1)

\* _calculate_tcp_success_rate, as an exact fraction
calculate_tcp_success_rate(total_stats) ==
    LET total_attempts == total_stats.total_tcp_connections
                          + total_stats.total_tcp_failed
    IN IF total_attempts > 0
       THEN Div(total_stats.total_tcp_connections * 100, total_attempts)
       ELSE Div(0, 1)

\* What the coordinator and the connections of a fleet leave alone: the
\* connection followed step by step in the other specifications.
connection_vars ==
    << clock, cfg, pc, running, received_shutdown, driver_locals, stats,
       reports, listener_vars, loop_history, iter_work, activity_history >>

\* GameClient(f"{player_id}-{connection_id}", server_ip), its listener port
\* as _setup_shutdown_socket will compute it.
NewClient(p, c, t) ==
    [ player_id |-> FormatId(p, c),
      listen_port |-> listen_port(FormatId(p, c)),
      stats |-> NewPlayerStats(t),
      consecutive_failures |-> 0,
      reason |-> "none" ]

\* GameClientManager(num_players, ..., connections_per_player), before
\* run_complete_simulation.
InitFleet ==
    /\ NewGameClient(Healthy)
    /\ NoServer
    /\ mpc = "start"
    /\ duration = default_duration
    /\ num_players \in 1..MaxClients
    /\ connections_per_player \in 1..MaxClients
    /\ num_players * connections_per_player <= MaxClients
    /\ clients = << >>
    /\ threads = << >>
    /\ player_id = 0
    /\ connection_id = 0
    /\ joined = 0
    /\ session_end_time = None
    /\ report = << >>
    /\ client_ops = << >>

\* start_simulation up to the first pass of both for loops.
StartSimulation ==
    /\ mpc = "start"
    /\ player_id' = 1
    /\ connection_id' = 1
    /\ mpc' = "spawn"
    /\ UNCHANGED << duration, num_players, connections_per_player, clients,
                    threads, joined, session_end_time, report, client_ops,
                    connection_vars, server_vars >>

\* The body of the inner for loop: a client and its thread are made and the
\* thread is started; then the loop variables advance.
SpawnClient ==
    /\ mpc = "spawn"
    /\ clients' = Append(clients, NewClient(player_id, connection_id, clock))
    /\ threads' = Append(threads, "alive")
    /\ client_ops' = Append(client_ops, 0)
    /\ IF connection_id < connections_per_player
       THEN /\ connection_id' = connection_id + 1
            /\ UNCHANGED << player_id, mpc >>
       ELSE IF player_id < num_players
       THEN /\ player_id' = player_id + 1
            /\ connection_id' = 1
            /\ UNCHANGED mpc
       ELSE /\ mpc' = "join"
            /\ UNCHANGED << player_id, connection_id >>
    /\ UNCHANGED << duration, num_players, connections_per_player, joined,
                    session_end_time, report, connection_vars,
                    server_vars >>

\* The driver of connection k runs one traffic activity on its own
\* statistics: a TCP probe or a UDP packet, with whatever outcome.
ClientActivity(k) ==
    /\ threads[k] = "alive"
    /\ SumSeq(client_ops) < MaxFleetOps
    /\ \/ \E outcome \in TcpOutcomes :
            clients' = with_stats(clients, k,
                          test_tcp_connection(clients[k].stats, 21, outcome))
       \/ \E ok \in BOOLEAN :
            clients' = with_stats(clients, k,
                          send_udp_packet(clients[k].stats, JoinLen, ok))
    /\ client_ops' = [client_ops EXCEPT ![k] = @ + 1]
    /\ UNCHANGED << mpc, duration, num_players, connections_per_player, threads,
                    player_id, connection_id, joined, session_end_time,
                    report, connection_vars,
                    server_vars >>

\* The driver of connection k leaves its loop for one of its three reasons
\* and simulate_game_traffic returns.
ClientEnd(k) ==
    /\ threads[k] = "alive"
    /\ \E reason \in {"graceful", "unreachable", "crashed"} :
          clients' = [clients EXCEPT ![k].reason = reason]
    /\ threads' = end_thread(threads, k)
    /\ UNCHANGED << mpc, duration, num_players, connections_per_player,
                    player_id, connection_id, joined, session_end_time,
                    report, client_ops, connection_vars, server_vars >>

\* thread.join() returning without the thread having ended.
JoinThread_nowait ==
    /\ mpc = "join"
    /\ joined < Len(threads)
    /\ joined' = joined + 1
    /\ UNCHANGED << mpc, duration, num_players, connections_per_player,
                    clients, threads, player_id, connection_id,
                    session_end_time, report, client_ops, connection_vars,
                    server_vars >>

\* `for thread in self.threads: thread.join()`: one join returns.
JoinThread ==
    /\ mpc = "join"
    /\ joined < Len(threads)
    /\ threads[joined + 1] = "dead"
    /\ joined' = joined + 1
    /\ UNCHANGED << mpc, duration, num_players, connections_per_player,
                    clients, threads, player_id, connection_id,
                    session_end_time, report, client_ops, connection_vars,
                    server_vars >>

\* The end of start_simulation: session_end_time = time.time().
EndSession ==
    /\ mpc = "join"
    /\ joined = Len(threads)
    /\ session_end_time' = clock
    /\ mpc' = "report"
    /\ UNCHANGED << duration, num_players, connections_per_player, clients,
                    threads, player_id, connection_id, joined, report,
                    client_ops, connection_vars, server_vars >>

\* generate_report: the aggregate, the two rates and, in the JSON file, the
\* export of every connection.
GenerateReport ==
    /\ mpc = "report"
    /\ LET total_stats == calculate_aggregate_stats(clients) IN
       report' = << [ total_stats |-> total_stats,
                      udp_success_rate |-> calculate_udp_success_rate(total_stats),
                      tcp_success_rate |-> calculate_tcp_success_rate(total_stats),
                      player_details |-> [k \in DOMAIN clients |->
                                             get_stats_dict(clients[k].stats)] ] >>
    /\ mpc' = "done"
    /\ UNCHANGED << duration, num_players, connections_per_player, clients,
                    threads, player_id, connection_id, joined,
                    session_end_time, client_ops, connection_vars,
                    server_vars >>

NextFleet ==
    \/ StartSimulation
    \/ SpawnClient
    \/ \E k \in DOMAIN threads : ClientActivity(k)
    \/ \E k \in DOMAIN threads : ClientEnd(k)
    \/ JoinThread
    \/ EndSession
    \/ GenerateReport

\* The coordinator with its connections.
SpecFleet == InitFleet /\ [][NextFleet]_vars

(***************************************************************************)
(* The fleet against a server that has stopped answering (SpecDown)        *)
(***************************************************************************)
\* The driver of connection k finds its liveness probe due.  The server has
\* stopped answering: every port of is_server_available times out, the
\* probe returns False, _check_server_status counts the failure and at
\* max_consecutive_failures the loop is left and simulate_game_traffic
\* returns.
ClientProbe(k) ==
    /\ threads[k] = "alive"
    /\ LET probe == is_server_available([i \in 1..Len(ping_ports) |-> "timeout"], 1)
           failures == check_server_status(clients[k].consecutive_failures,
                                           probe.result = "true")
       IN IF failures >= max_consecutive_failures
          THEN /\ clients' = [clients EXCEPT ![k].consecutive_failures = failures,
                                             ![k].reason = "unreachable"]
               /\ threads' = end_thread(threads, k)
          ELSE /\ clients' = [clients EXCEPT ![k].consecutive_failures = failures]
               /\ UNCHANGED threads
    /\ UNCHANGED << mpc, duration, num_players, connections_per_player,
                    player_id, connection_id, joined, session_end_time,
                    report, client_ops, connection_vars, server_vars >>

\* A manager of at most MaxDownClients connections.
InitDown == InitFleet /\ num_players * connections_per_player <= MaxDownClients

NextDown ==
    \/ StartSimulation
    \/ SpawnClient
    \/ \E k \in DOMAIN threads : ClientActivity(k)
    \/ \E k \in DOMAIN threads : ClientProbe(k)
    \/ JoinThread
    \/ EndSession

\* start_simulation under the thread scheduler, no shutdown token being
\* sent: the coordinator's thread and every driver thread that can take a
\* step is not held back for ever, and the clock advances, so that the
\* probe of a running driver comes due again.
SpecDown ==
    /\ InitDown
    /\ [][NextDown]_vars
    /\ WF_vars(StartSimulation \/ SpawnClient \/ JoinThread \/ EndSession)
    /\ \A k \in 1..MaxDownClients : WF_vars(k \in DOMAIN threads /\ ClientProbe(k))

(***************************************************************************)
(* generate_report on a fleet whose drivers have all ended (SpecReport)    *)
(***************************************************************************)
\* The statistics after n more TCP probes on port 21 with one outcome.
RECURSIVE after_tcp(_, _, _)
after_tcp(st, n, outcome) ==
    IF n = 0 THEN st
    ELSE after_tcp(test_tcp_connection(st, 21, outcome), n - 1, outcome)

\* The statistics after further pings: a measurement is recorded by
\* record_ping, a ping that no port answered leaves None in ping_times.
RECURSIVE after_pings(_, _, _)
after_pings(st, pings, t) ==
    IF pings = << >> THEN st
    ELSE after_pings(IF Head(pings) = None
                     THEN [st EXCEPT !.ping_times = Append(@, None)]
                     ELSE record_ping(st, Head(pings), t),
                     Tail(pings), t)

\* The outcomes of the pings of one reported connection.
PingLogs == { << >>, << None >>, << 12 >>, << 48, None, 12 >> }

\* A connection that made s successful TCP probes and f that raised (each
\* leaving an entry in its error log), sent one
\* join packet when udp holds and pinged with the outcomes `pings`, before
\* its driver ended.
EndedClient(k, t, s, f, udp, pings) ==
    LET tcp == after_tcp(after_tcp(NewPlayerStats(t), s, "sent"), f, "raise")
        sent == IF udp THEN send_udp_packet(tcp, JoinLen, TRUE) ELSE tcp
    IN [ NewClient(k, 1, t) EXCEPT
            !.stats = after_pings(sent, pings, t),
            !.reason = "graceful" ]

\* start_simulation has returned: every thread joined, session_end_time set.
InitReport ==
    /\ NewGameClient(Healthy)
    /\ NoServer
    /\ mpc = "report"
    /\ duration = default_duration
    /\ num_players = ReportClients
    /\ connections_per_player = 1
    /\ \E s \in [1..ReportClients -> 0..MaxTcpSuccess],
          f \in [1..ReportClients -> 0..MaxTcpFailed],
          udp \in [1..ReportClients -> BOOLEAN],
          pings \in [1..ReportClients -> PingLogs] :
          /\ clients = [k \in 1..ReportClients |->
                           EndedClient(k, clock, s[k], f[k], udp[k], pings[k])]
          /\ client_ops = [k \in 1..ReportClients |->
                              s[k] + f[k] + (IF udp[k] THEN 1 ELSE 0)]
    /\ threads = [k \in 1..ReportClients |-> "dead"]
    /\ player_id = ReportClients
    /\ connection_id = 1
    /\ joined = ReportClients
    /\ session_end_time = clock
    /\ report = << >>

NextReport == GenerateReport

\* run_complete_simulation from the return of start_simulation on.
SpecReport == InitReport /\ [][NextReport]_vars

(***************************************************************************)
(* The shutdown port of an identity (SpecPorts)                            *)
(***************************************************************************)
\* The characters of str(player_id): digits, the dash, and Letter for any
\* other character.
IdChars == 0..9 \cup {Dash, Letter}

\* The identities of up to PlayerIdLen characters: "7", "12", "1-1", "-1",
\* "1-x", "abc", ...
Identities == UNION {[1..n -> IdChars] : n \in 1..PlayerIdLen}

\* GameClient(id, ...)._setup_shutdown_socket(), called once: the port
\* is computed first, then the socket is made, bound and given its timeout,
\* or one of these calls raises and is logged.
CallSetupShutdownSocket ==
    /\ pc = "idle"
    /\ lpc = "none"
    /\ shutdown_socket = "none"
    /\ call = NoCall
    /\ \E id \in Identities, made \in {"bound", "unbound", "none"} :
          /\ call' = [ fn |-> "_setup_shutdown_socket",
                       player_id |-> id,
                       listen_port |-> listen_port(id) ]
          /\ shutdown_socket' = made
    /\ UNCHANGED << clock, cfg, manager_vars, server_vars, pc, running,
                    received_shutdown, driver_locals, stats, reports, lpc,
                    inbox, msgs_sent, loop_history, iter_work, tcp_attempts,
                    send_attempts, exceptions_raised >>

InitPorts == InitIn(Healthy)

NextPorts == CallSetupShutdownSocket

\* Clients of every identity set up their shutdown socket.
SpecPorts == InitPorts /\ [][NextPorts]_vars

(***************************************************************************)
(* The test server: PortListener and NFTablesTestServer                    *)
(***************************************************************************)
\* PortListener(port, protocol) as constructed.  `at` is the position of the
\* thread that runs start(); `bind` is history: how the bind() call ended.
PortListener(port, protocol) ==
    [ port |-> port, protocol |-> protocol, socket |-> "none", running |-> FALSE,
      connections |-> 0, packets_received |-> 0, at |-> "new", bind |-> "pending" ]

\* The listeners start_listeners creates, in its order: the TCP ports of
\* DEFAULT_TCP_PORTS that TCP_PORTS holds, then the UDP ones.
ListenerPlan ==
    LET tcp == SelectSeq(DEFAULT_TCP_PORTS, LAMBDA q : q \in TCP_PORTS)
        udp == SelectSeq(DEFAULT_UDP_PORTS, LAMBDA q : q \in UDP_PORTS)
    IN [i \in 1..Min(MaxTcpListeners, Len(tcp)) |-> [port |-> tcp[i], protocol |-> "tcp"]]
       \o [i \in 1..Min(MaxUdpListeners, Len(udp)) |-> [port |-> udp[i], protocol |-> "udp"]]

server_frame == UNCHANGED << spc, broadcast, stopped, manager_vars, connection_vars >>

\* The outcomes of the first statements of _start_tcp / _start_udp:
\* socket() raises, bind() raises, or the socket is bound.
BindOutcomes == {"nosock", "bind_raises", "bound"}

\* bind() with self.running set before it, and kept when bind() raises.
StartBind_premature(i) ==
    /\ i \in DOMAIN listeners
    /\ listeners[i].at = "socket"
    /\ \E outcome \in BindOutcomes :
          listeners' = [listeners EXCEPT ![i] =
              CASE outcome = "nosock" ->
                     [@ EXCEPT !.at = "returned"]
                [] outcome = "bind_raises" ->
                     [@ EXCEPT !.socket = "open", !.bind = "failed",
                               !.at = "returned", !.running = TRUE]
                [] outcome = "bound" ->
                     [@ EXCEPT !.socket = "bound", !.bind = "ok", !.at = "ready",
                               !.running = TRUE]]
    /\ server_frame

\* socket.socket(...), setsockopt for TCP, and
\* self.socket.bind(('0.0.0.0', self.port)).  When one of them raises (no
\* descriptor left, the port is taken) start() prints the error in its
\* except clause and returns; nothing closes the socket.
StartBind(i) ==
    /\ i \in DOMAIN listeners
    /\ listeners[i].at = "socket"
    /\ \E outcome \in BindOutcomes :
          listeners' = [listeners EXCEPT ![i] =
              CASE outcome = "nosock" ->
                     [@ EXCEPT !.at = "returned"]
                [] outcome = "bind_raises" ->
                     [@ EXCEPT !.socket = "open", !.bind = "failed",
                               !.at = "returned"]
                [] outcome = "bound" ->
                     [@ EXCEPT !.socket = "bound", !.bind = "ok", !.at = "ready"]]
    /\ server_frame

\* listen(5) for TCP, settimeout(1.0) for UDP, then self.running = True.
StartListen(i) ==
    /\ i \in DOMAIN listeners
    /\ listeners[i].at = "ready"
    /\ \E ok \in BOOLEAN :
          listeners' = [listeners EXCEPT ![i] =
              IF ok /\ @.socket = "bound"
              THEN [@ EXCEPT !.running = TRUE, !.at = "serving"]
              ELSE [@ EXCEPT !.at = "returned"]]
    /\ server_frame

\* The connections accepted and the datagrams received by all listeners.
RECURSIVE Served(_)
Served(ls) ==
    IF ls = << >> THEN 0
    ELSE (IF Head(ls).protocol = "tcp" THEN Head(ls).connections
          ELSE Head(ls).packets_received) + Served(Tail(ls))

\* One pass of `while self.running`: a connection accepted and closed (TCP),
\* a datagram acknowledged (UDP, from a new or a known client), a receive
\* timeout (UDP), or any other exception, which breaks the loop.
Serve(i) ==
    /\ i \in DOMAIN listeners
    /\ listeners[i].at = "serving"
    /\ LET l == listeners[i] IN
       \/ /\ ~l.running
          /\ listeners' = [listeners EXCEPT ![i].at = "returned"]
       \/ /\ l.running /\ l.socket = "bound" /\ l.protocol = "tcp"
          /\ Served(listeners) < MaxConnections
          /\ listeners' = [listeners EXCEPT ![i].connections = @ + 1]
       \/ /\ l.running /\ l.socket = "bound" /\ l.protocol = "udp"
          /\ Served(listeners) < MaxConnections
          /\ \E known \in BOOLEAN :
                /\ known => l.connections > 0
                /\ listeners' = [listeners EXCEPT ![i] =
                      [@ EXCEPT !.packets_received = @ + 1,
                                !.connections = IF known THEN @ ELSE @ + 1]]
       \/ /\ l.running /\ l.socket = "bound" /\ l.protocol = "udp"
          /\ UNCHANGED listeners
       \/ /\ l.running
          /\ listeners' = [listeners EXCEPT ![i].at = "returned"]
    /\ server_frame

\* PortListener.stop(): running = False, and the socket closed if there is one.
stop(l) ==
    [l EXCEPT !.running = FALSE,
              !.socket = IF @ = "none" THEN "none" ELSE "closed"]

\* One pass of the loops of start_listeners: a listener appended and its
\* thread started; after the last one the server is up.
StartListeners ==
    /\ spc = "start"
    /\ Len(listeners) < Len(ListenerPlan)
    /\ LET next == ListenerPlan[Len(listeners) + 1] IN
          listeners' = Append(listeners,
                              [PortListener(next.port, next.protocol) EXCEPT !.at = "socket"])
    /\ spc' = IF Len(listeners) + 1 = Len(ListenerPlan) THEN "serve" ELSE "start"
    /\ UNCHANGED << broadcast, stopped, manager_vars, connection_vars >>

\* shutdown_server that stops the listeners first and broadcasts afterwards.
ShutdownServer_stops_first ==
    /\ spc = "serve"
    /\ spc' = "broadcast"
    /\ broadcast' = [NoBroadcast EXCEPT !.at = "socket"]
    /\ listeners' = [i \in DOMAIN listeners |-> stop(listeners[i])]
    /\ stopped' = Len(listeners)
    /\ UNCHANGED << manager_vars, connection_vars >>

\* shutdown_server is entered and calls broadcast_shutdown.
ShutdownServer ==
    /\ spc = "serve"
    /\ spc' = "broadcast"
    /\ broadcast' = [NoBroadcast EXCEPT !.at = "socket"]
    /\ UNCHANGED << listeners, stopped, manager_vars, connection_vars >>

\* broadcast_shutdown left; shutdown_server goes on to its stop loop.
broadcast_returned(b) == [b EXCEPT !.at = "returned"]

\* socket(), setsockopt(SO_BROADCAST) and the nslookup discovery, which may
\* put one more target first.  An exception of the first two is caught by
\* the outer handler: nothing is sent.
BroadcastSocket ==
    /\ spc = "broadcast"
    /\ broadcast.at = "socket"
    /\ \/ \E discovered \in BOOLEAN :
             broadcast' = [broadcast EXCEPT
                 !.at = "send", !.sock = "open",
                 !.targets = IF discovered THEN << "discovered" >> \o client_targets
                             ELSE client_targets,
                 !.target = 1]
       \/ \E made \in {"none", "open"} :
             /\ broadcast' = broadcast_returned([broadcast EXCEPT !.sock = made])
    /\ spc' = IF broadcast'.at = "returned" THEN "stop" ELSE spc
    /\ UNCHANGED << listeners, stopped, manager_vars, connection_vars >>

\* One pass of `for target in client_targets`: sendto(target, port) for
\* every port of shutdown_ports, an exception of which is logged for the
\* first port and otherwise dropped; `sent` tells whether any of these
\* datagrams went out.
BroadcastSend ==
    /\ spc = "broadcast"
    /\ broadcast.at = "send"
    /\ \E sent \in BOOLEAN :
          LET last_target == broadcast.target = Len(broadcast.targets)
          IN broadcast' = [broadcast EXCEPT
                 !.notification_sent = @ \/ sent,
                 !.attempts = @ + Len(shutdown_ports),
                 !.target = IF last_target THEN @ ELSE @ + 1,
                 !.at = IF last_target THEN "close" ELSE "send"]
    /\ UNCHANGED << listeners, spc, stopped, manager_vars, connection_vars >>

\* sock.close() and the closing message; broadcast_shutdown returns.
BroadcastClose ==
    /\ spc = "broadcast"
    /\ broadcast.at = "close"
    /\ broadcast' = broadcast_returned([broadcast EXCEPT !.sock = "closed"])
    /\ spc' = "stop"
    /\ UNCHANGED << listeners, stopped, manager_vars, connection_vars >>

\* One pass of `for listener in self.listeners: listener.stop()`.
StopListener ==
    /\ spc = "stop"
    /\ stopped < Len(listeners)
    /\ listeners' = [listeners EXCEPT ![stopped + 1] = stop(@)]
    /\ stopped' = stopped + 1
    /\ spc' = IF stopped + 1 = Len(listeners) THEN "done" ELSE "stop"
    /\ UNCHANGED << broadcast, manager_vars, connection_vars >>

ListenerThread(i) == StartBind(i) \/ StartListen(i) \/ Serve(i)

InitServer == InitIn(Healthy)

NextServer ==
    \/ StartListeners
    \/ \E i \in 1..Len(ListenerPlan) : ListenerThread(i)
    \/ ShutdownServer
    \/ BroadcastSocket
    \/ BroadcastSend
    \/ BroadcastClose
    \/ StopListener

\* run_tests from start_listeners on: the listener threads and the shutdown.
SpecServer == InitServer /\ [][NextServer]_vars

(***************************************************************************)
(* Vocabulary of the properties                                            *)
(***************************************************************************)
\* The termination reasons the run has reported so far.
ReportedReasons == {reports[i].reason : i \in DOMAIN reports}

\* The reasons the run has reported from the place `at`.
ReasonsAt(at) == {reports[i].reason : i \in {j \in DOMAIN reports : reports[j].at = at}}

\* The driver has left the loop.
LeftLoop == exit_via # "none"

\* The last n liveness probes all failed.
LastProbesFailed(n) ==
    /\ Len(probes) >= n
    /\ \A i \in (Len(probes) - n + 1)..Len(probes) : probes[i] = "false"

\* Every liveness probe made so far failed.
AllProbesFailed == \A i \in DOMAIN probes : probes[i] = "false"

\* The number of failed probes since the last successful one.
TrailingFailures ==
    LET runs == {k \in 0..Len(probes) : LastProbesFailed(k)}
    IN CHOOSE k \in runs : \A j \in runs : j <= k

(***************************************************************************)
(* Loop control (specification Spec)                                       *)
(***************************************************************************)
\* C1: an iteration that starts with received_shutdown true leaves the loop as
\* a graceful termination at once; it does no ping, no throughput snapshot, no
\* liveness probe and no traffic activity, and nothing of the kind follows.
C1_ShutdownCheckedFirst ==
    [][ /\ (pc = "loop" /\ received_shutdown /\ pc' # pc) =>
            /\ pc' = "finally"
            /\ exit_via' = "shutdown"
            /\ reports' = Append(reports, Report("loop", "graceful"))
            /\ iter_work' = {}
            /\ stats' = stats /\ probes' = probes
            /\ ping_attempts' = ping_attempts
            /\ send_attempts' = send_attempts /\ tcp_attempts' = tcp_attempts
        /\ exit_via = "shutdown" =>
            /\ iter_work' = {}
            /\ stats' = stats /\ probes' = probes
            /\ ping_attempts' = ping_attempts
      ]_vars

\* An iteration found the flag set after earlier iterations had worked.
C1_Witness ==
    /\ pc = "done"
    /\ exit_via = "shutdown"
    /\ iter >= 2
    /\ Len(probes) >= 1
    /\ iter_work = {}

\* C2 (as the specification states it): when received_shutdown is true by the
\* time the failure count reaches the threshold, in the iteration that began
\* with the flag clear, the run reports "graceful" and never "unreachable".
C2_GracefulPrecedence ==
    (pc = "done" /\ exit_via = "threshold" /\ flag_at_exit) =>
        /\ "graceful" \in ReportedReasons
        /\ "unreachable" \notin ReportedReasons

\* C3: with probes that always fail and no shutdown signal, the driver is
\* still running after fewer than max_consecutive_failures probes, leaves the
\* loop as unreachable on the max_consecutive_failures-th and probes no more.
C3_ExactlyThresholdProbes ==
    (AllProbesFailed /\ ~received_shutdown) =>
        /\ Len(probes) <= max_consecutive_failures
        /\ (Len(probes) < max_consecutive_failures /\ pc # "idle") =>
              (running /\ ~LeftLoop /\ reports = << >>)
        /\ Len(probes) = max_consecutive_failures =>
              /\ exit_via = "threshold"
              /\ ReasonsAt("loop") = {"unreachable"}
              /\ pc = "done" =>
                    reports = << Report("loop", "unreachable"),
                                 Report("finally", "unreachable") >>

\* The run ended after max_consecutive_failures failed probes.
C3_Witness ==
    /\ pc = "done"
    /\ AllProbesFailed
    /\ ~received_shutdown
    /\ Len(probes) = max_consecutive_failures

\* C4: the counter is the number of failed probes since the last success, and
\* a run that did not crash reports "unreachable" only when its last
\* max_consecutive_failures probes all failed.
C4_ConsecutiveFailures ==
    /\ exit_via # "exception" => consecutive_failures = TrailingFailures
    /\ exit_via = "threshold" => LastProbesFailed(max_consecutive_failures)
    /\ ("unreachable" \in ReportedReasons /\ exit_via # "exception") =>
          (exit_via = "threshold" /\ LastProbesFailed(max_consecutive_failures))

\* A success between two failures: three probes, one failure counted.
C4_Witness ==
    /\ probes = << "false", "true", "false" >>
    /\ consecutive_failures = 1
    /\ pc = "activity"

\* C5 (as the specification states it): a run that an exception ended reports
\* "crashed" and neither "unreachable" nor "graceful".
C5_CrashedDistinct ==
    (pc = "done" /\ exit_via = "exception") =>
        /\ "crashed" \in ReportedReasons
        /\ "unreachable" \notin ReportedReasons
        /\ "graceful" \notin ReportedReasons

\* C6: once simulate_game_traffic has ended, by whichever path, running is
\* False and the last thing reported is the final summary with a reason.
C6_FinalSummary ==
    pc = "done" =>
        /\ ~running
        /\ reports # << >>
        /\ reports[Len(reports)].at = "finally"
        /\ reports[Len(reports)].reason \in {"graceful", "unreachable"}
        /\ Cardinality({i \in DOMAIN reports : reports[i].at = "finally"}) = 1

\* A run that crashed has ended with its summary.
C6_Witness ==
    /\ pc = "done"
    /\ exit_via = "exception"
    /\ ~running

(***************************************************************************)
(* Traffic activities (specification SpecTraffic)                          *)
(***************************************************************************)
\* C7: every exception raised in an activity is in the error log, the step
\* that raised it returns to the head of the loop with the driver running, and
\* the loop is left only by the shutdown check, the failure threshold or an
\* exception outside the activity guard.
C7_ActivityFailureContained ==
    [][ /\ (pc = "activity" /\ pc' # pc) =>
            /\ pc' = "loop"
            /\ running'
            /\ exit_via' = "none"
            /\ reports' = reports
            /\ Len(stats'.errors) - Len(stats.errors)
                  = exceptions_raised' - exceptions_raised
        /\ exit_via' # exit_via =>
            \/ pc = "loop" /\ exit_via' = "shutdown" /\ received_shutdown
            \/ pc = "check" /\ exit_via' = "threshold"
                  /\ consecutive_failures' >= max_consecutive_failures
            \/ pc = "check" /\ exit_via' = "exception"
      ]_vars

\* An iteration began after the activity guard caught a ValueError.
C7_Witness ==
    /\ pc = "ping"
    /\ stats.errors = << "Activity" >>
    /\ exceptions_raised = 1
    /\ running

\* C8 (as the specification states it): tcp_connections + tcp_failed is the
\* number of _test_tcp_connection calls the connection has made.
C8_TcpAttemptsCounted ==
    stats.tcp_connections + stats.tcp_failed = tcp_attempts

(***************************************************************************)
(* Ping series (specification SpecPing)                                    *)
(***************************************************************************)
\* The measured entries of ping_times, in order.
MeasuredPings == SelectSeq(stats.ping_times, LAMBDA x : x # None)

\* The indices of the candidate ports that answer the ping of this iteration.
ReplyingPorts == {i \in 1..Len(ping_ports) : ping_ports[i] \in ping_env.resp}

\* C9: ping_history is never longer than ping_times, and its i-th entry
\* carries the i-th measured (non-None) entry of ping_times.
C9_HistoryFollowsTimes ==
    /\ Len(stats.ping_history) <= Len(stats.ping_times)
    /\ Len(stats.ping_history) = Len(MeasuredPings)
    /\ \A i \in DOMAIN stats.ping_history :
          stats.ping_history[i].ping_ms = MeasuredPings[i]

\* A series with a gap between two measurements.
C9_Witness ==
    /\ stats.ping_times = << 48, None, 12 >>
    /\ Len(stats.ping_history) = 2

\* C10: ping_times has one entry for each ping attempt; the entry of the
\* attempt just made is the round trip of the first candidate port that
\* replies, no later port having been tried, or None when no port replies.
C10_OneEntryPerAttempt ==
    /\ Len(stats.ping_times) = ping_attempts
    /\ "ping" \in iter_work =>
          LET last == stats.ping_times[Len(stats.ping_times)] IN
          /\ Len(stats.ping_times) >= 1
          /\ IF ReplyingPorts = {}
             THEN last = None /\ ping_env.tried = Len(ping_ports)
             ELSE /\ last = ping_env.rtt
                  /\ \A i \in ReplyingPorts : ping_env.tried <= i
                  /\ ping_env.tried \in ReplyingPorts

\* After an attempt no port answered, an attempt the second and the third
\* port answer: the second port's round trip is recorded, the third not tried.
C10_Witness ==
    /\ "ping" \in iter_work
    /\ stats.ping_times = << None, 48 >>
    /\ ping_env.resp = {6962, 6963}
    /\ ping_env.tried = 2

(***************************************************************************)
(* PlayerStats API (specification SpecStats)                               *)
(***************************************************************************)
\* C11 (as the specification states it): every record_ping(v) adds v to
\* ping_times, and adds an entry to ping_history only when v is a measurement:
\* the history has one entry for each measured value and none for None.
C11_HistoryOnlyOnSuccess ==
    /\ Len(stats.ping_history)
          = Cardinality({i \in DOMAIN stats.ping_times : stats.ping_times[i] # None})
    /\ \A i \in DOMAIN stats.ping_history : stats.ping_history[i].ping_ms # None

(***************************************************************************)
(* Shutdown listener (specifications Spec and SpecLive)                    *)
(***************************************************************************)
\* C12 (as the specification states it): the listener that takes a datagram
\* sets received_shutdown and leaves its loop when the payload is exactly the
\* token SERVER_SHUTDOWN; on any other payload it leaves the flag as it is and
\* goes on listening.
C12_TokenOnly ==
    [][ (lpc = "recv" /\ inbox # << >> /\ inbox' = Tail(inbox)) =>
            IF Head(inbox) = "SERVER_SHUTDOWN"
            THEN received_shutdown' /\ lpc' = "cleanup"
            ELSE received_shutdown' = received_shutdown /\ lpc' = "check"
      ]_vars

\* C13 (as the specification states it): once the driver has ended for a
\* reason other than a shutdown signal, the listener thread eventually ends.
C13_ListenerEnds ==
    (pc = "done" /\ exit_via # "shutdown") ~> (lpc = "ended")

\* C14: a listener thread that has ended has closed its socket, whatever made
\* its loop exit; only a socket that was never created is left as it was.
C14_SocketClosedAtEnd ==
    lpc = "ended" => shutdown_socket \in {"closed", "none"}

\* The driver stopped without a shutdown signal and the listener, which had
\* bound its socket, has ended.
C14_Witness ==
    /\ lpc = "ended"
    /\ shutdown_socket = "closed"
    /\ ~received_shutdown
    /\ pc = "done"

(***************************************************************************)
(* Fleet coordinator (specification SpecFleet)                             *)
(***************************************************************************)
\* The coordinator has left the loops that create the connections.
AllSpawned == mpc \in {"join", "report", "done"}

\* C15 (as the specification states it): any two distinct connections of one
\* GameClientManager listen on different ports.
C15_DistinctListenerPorts ==
    \A i, j \in DOMAIN clients :
        i # j => clients[i].listen_port # clients[j].listen_port

\* C16: session_end_time is set and the aggregate computed only when every
\* connection has been created and every driver thread has ended.
C16_AggregateAfterAll ==
    (session_end_time # None \/ report # << >>) =>
        /\ AllSpawned
        /\ Len(threads) = num_players * connections_per_player
        /\ joined = Len(threads)
        /\ \A k \in DOMAIN threads : threads[k] = "dead"

\* The report of a fleet of two players with two connections each.
C16_Witness ==
    /\ mpc = "done"
    /\ report # << >>
    /\ num_players = 2 /\ connections_per_player = 2
    /\ session_end_time # None

\* C17: start_simulation creates one client and one thread for each pair
\* (p, c), p in 1..num_players and c in 1..connections_per_player, in that
\* order, with the identity "p-c"; no two clients share an identity.
C17_OneDriverPerPair ==
    /\ Len(clients) = Len(threads)
    /\ mpc = "spawn" =>
          Len(clients) = (player_id - 1) * connections_per_player
                         + (connection_id - 1)
    /\ AllSpawned =>
          /\ Len(clients) = num_players * connections_per_player
          /\ \A q \in 1..num_players, c \in 1..connections_per_player :
                clients[(q - 1) * connections_per_player + c].player_id
                   = << q, Dash, c >>
    /\ \A i, j \in DOMAIN clients :
          i # j => clients[i].player_id # clients[j].player_id

\* Two players with two connections each, all four started.
C17_Witness ==
    /\ mpc = "join"
    /\ num_players = 2 /\ connections_per_player = 2
    /\ Len(clients) = 4
    /\ clients[4].player_id = << 2, Dash, 2 >>

\* C18: while a driver is still running the coordinator is creating or
\* joining threads and has not joined that one; and the step in which one
\* driver ends changes no other connection and does not move the coordinator.
C18_FailuresStayLocal ==
    /\ [](\A k \in DOMAIN threads :
             threads[k] = "alive" => (mpc \in {"spawn", "join"} /\ joined < k))
    /\ [][ \A k \in DOMAIN threads :
             (threads[k] = "alive" /\ threads'[k] = "dead") =>
                 /\ \A j \in DOMAIN threads \ {k} :
                       threads'[j] = threads[j] /\ clients'[j] = clients[j]
                 /\ mpc' = mpc
                 /\ joined' = joined
         ]_vars

\* A connection has crashed after an activity error while a sibling still
\* runs and the coordinator waits.
C18_Witness ==
    /\ mpc = "join"
    /\ \E k, j \in DOMAIN threads :
          /\ clients[k].reason = "crashed"
          /\ clients[k].stats.errors # << >>
          /\ threads[j] = "alive"

\* C19: the counters of a connection never exceed the activities that
\* connection itself has run, and a step that changes the statistics of one
\* connection is an activity of that connection and changes no other's.
C19_StatsOwnedByDriver ==
    /\ [](\A k \in DOMAIN clients :
             /\ clients[k].stats.tcp_connections <= client_ops[k]
             /\ clients[k].stats.tcp_failed <= client_ops[k]
             /\ clients[k].stats.udp_packets_sent <= client_ops[k]
             /\ Len(clients[k].stats.errors) <= client_ops[k])
    /\ [][ \A k \in DOMAIN clients :
             clients'[k].stats # clients[k].stats =>
                 /\ client_ops'[k] = client_ops[k] + 1
                 /\ \A j \in DOMAIN clients \ {k} :
                       /\ clients'[j].stats = clients[j].stats
                       /\ client_ops'[j] = client_ops[j]
         ]_vars

\* Two connections that run side by side have each run an activity of their
\* own, with different results.
C19_Witness ==
    \E k, j \in DOMAIN clients :
        /\ k # j
        /\ client_ops[k] = 1 /\ client_ops[j] = 1
        /\ threads[k] = "alive" /\ threads[j] = "alive"
        /\ clients[k].stats.tcp_connections = 1
        /\ clients[j].stats.udp_packets_sent = 1
        /\ clients[k].stats.udp_packets_sent = 0

(***************************************************************************)
(* Aggregate report (specification SpecReport)                             *)
(***************************************************************************)
\* The per-connection successful and failed TCP counts, in client order.
tcp_successes == [k \in DOMAIN clients |-> clients[k].stats.tcp_connections]
tcp_failures == [k \in DOMAIN clients |-> clients[k].stats.tcp_failed]

\* C20: the report holds, for each counter, the sum over all connections;
\* its TCP success rate is success / (success + failure) * 100, and 0 when
\* there was no attempt; success counts 2, 0, 1 with failure counts 0, 1, 0
\* give total success 3, total failure 1 and a rate of 75.
C20_AggregateReport ==
    report # << >> =>
        LET total == report[1].total_stats
            rate == report[1].tcp_success_rate
            n == Len(clients)
            Total(f) == LET S[i \in 0..n] ==
                                IF i = 0 THEN 0 ELSE S[i - 1] + f[i]
                        IN S[n]
            successes == Total(tcp_successes)
            failures == Total(tcp_failures)
        IN /\ total.total_players = n
           /\ total.total_tcp_connections = successes
           /\ total.total_tcp_failed = failures
           /\ total.total_udp_packets =
                 Total([k \in 1..n |-> clients[k].stats.udp_packets_sent])
           /\ total.total_udp_responses =
                 Total([k \in 1..n |-> clients[k].stats.udp_responses])
           /\ total.total_bytes_sent =
                 Total([k \in 1..n |-> clients[k].stats.total_bytes_sent])
           /\ total.total_bytes_received =
                 Total([k \in 1..n |-> clients[k].stats.total_bytes_received])
           /\ total.total_errors =
                 Total([k \in 1..n |-> Len(clients[k].stats.errors)])
           /\ successes + failures = 0 => rate = [num |-> 0, den |-> 1]
           /\ successes + failures > 0 =>
                 /\ rate.den > 0
                 /\ rate.num * (successes + failures)
                       = 100 * successes * rate.den
           /\ (tcp_successes = << 2, 0, 1 >> /\ tcp_failures = << 0, 1, 0 >>) =>
                 /\ total.total_tcp_connections = 3
                 /\ total.total_tcp_failed = 1
                 /\ rate = [num |-> 75, den |-> 1]

\* The report of the three connections of the example.
C20_Witness ==
    /\ mpc = "done"
    /\ report # << >>
    /\ tcp_successes = << 2, 0, 1 >>
    /\ tcp_failures = << 0, 1, 0 >>
    /\ report[1].tcp_success_rate.num = 75

\* No ping of the connection was answered: ping_times is empty or holds
\* only None.
NoValidPing(st) == \A i \in DOMAIN st.ping_times : st.ping_times[i] = None

\* C21: for a connection without a successful ping the export holds None as
\* ping_min_ms, ping_max_ms and ping_avg_ms, and 0 as ping_count; when no
\* connection has one, so does the aggregate.
C21_NoPingIsAbsent ==
    report # << >> =>
        LET total == report[1].total_stats
            details == report[1].player_details
        IN /\ \A k \in DOMAIN clients :
                 NoValidPing(clients[k].stats) =>
                     /\ details[k].ping_min_ms = None
                     /\ details[k].ping_max_ms = None
                     /\ details[k].ping_avg_ms = NoneFraction
                     /\ details[k].ping_count = 0
           /\ (\A k \in DOMAIN clients : NoValidPing(clients[k].stats)) =>
                 /\ total.ping_min_ms = None
                 /\ total.ping_max_ms = None
                 /\ total.ping_avg_ms = NoneFraction
                 /\ total.ping_count = 0

\* The report of three connections without a successful ping: one never
\* pinged, two pinged without an answer.
C21_Witness ==
    /\ mpc = "done"
    /\ report # << >>
    /\ clients[1].stats.ping_times = << >>
    /\ clients[2].stats.ping_times = << None >>
    /\ clients[3].stats.ping_times = << None >>
    /\ report[1].total_stats.ping_count = 0
    /\ report[1].player_details[2].ping_count = 0

(***************************************************************************)
(* Throughput snapshots (specification SpecSnapshot)                       *)
(***************************************************************************)
\* C22: a snapshot taken when no packet was sent since the previous one has
\* the rate 0, whatever time passed between the two; and the rate of every
\* snapshot is a quotient with a positive divisor that is not negative.
C22_IdleSnapshotIsZero ==
    LET th == stats.throughput_history IN
    /\ \A i \in DOMAIN th :
          /\ th[i].packets_per_sec.den > 0
          /\ th[i].packets_per_sec.num >= 0
    /\ \A i \in DOMAIN th :
          (i > 1 /\ th[i].total_packets = th[i - 1].total_packets) =>
              th[i].packets_per_sec = [num |-> 0, den |-> 1]

\* Three snapshots after a packet was sent and none since: the second at the
\* clock reading of the first, the third later.
C22_Witness ==
    LET th == stats.throughput_history IN
    /\ Len(th) >= 3
    /\ th[1].total_packets > 0
    /\ th[1].packets_per_sec.num > 0
    /\ th[2].total_packets = th[1].total_packets
    /\ th[2].timestamp = th[1].timestamp
    /\ th[3].total_packets = th[1].total_packets
    /\ th[3].timestamp > th[2].timestamp

(***************************************************************************)
(* Traffic activities (specification SpecTraffic)                          *)
(***************************************************************************)
\* The calls of _send_udp_packet that raised: the "UDP" entries of the log.
UdpErrors == Len(SelectSeq(stats.errors, LAMBDA e : e = "UDP"))

\* C23: udp_responses equals udp_packets_sent at all times, and both count
\* the calls of _send_udp_packet that did not raise: a send that raises
\* adds to neither.
C23_SentCountedAsResponse ==
    /\ stats.udp_responses = stats.udp_packets_sent
    /\ stats.udp_packets_sent = send_attempts - UdpErrors

\* Packets have left and one send has raised.
C23_Witness ==
    /\ stats.udp_packets_sent >= 2
    /\ stats.udp_responses = stats.udp_packets_sent
    /\ UdpErrors = 1
    /\ send_attempts = stats.udp_packets_sent + 1

(***************************************************************************)
(* Methods called directly (specification SpecCalls)                       *)
(***************************************************************************)
\* C24 (as the specification states it): when _send_udp_packet or
\* _test_tcp_connection returns, the socket it opened is closed, on the
\* success path and on every path where a socket operation raised.
C24_ActivitySocketClosed ==
    call.fn \in {"_send_udp_packet", "_test_tcp_connection"} =>
        call.socket \in {"none", "closed"}

(***************************************************************************)
(* Timeouts (specification Spec)                                           *)
(***************************************************************************)
\* settimeout(1.0) has been called on the listener socket: it is the last
\* statement of _setup_shutdown_socket, after bind().
ListenerTimeoutSet == shutdown_socket = "bound"

\* C25 (as the specification states it), for the shutdown listener: the
\* socket on which the listener calls recvfrom has had its timeout set.
C25_TimeoutBeforeUse ==
    (lpc = "recv" /\ shutdown_socket \in {"bound", "unbound"}) =>
        ListenerTimeoutSet

\* C26: is_server_available probes test_ports in order.  When it returns
\* True the last port probed replied and none before it did; when it returns
\* False every port was probed and none replied; and it returns True
\* whenever a port would reply, unless socket() fails on the very first
\* port, where the call raises instead of returning.
C26_FirstResponsivePort ==
    call.fn = "is_server_available" =>
        /\ call.result = "true" =>
              /\ call.out[call.tried] = "reply"
              /\ \A j \in 1..(call.tried - 1) : call.out[j] # "reply"
        /\ call.result = "false" =>
              /\ call.tried = Len(test_ports)
              /\ \A j \in DOMAIN call.out : call.out[j] # "reply"
        /\ (call.out[1] # "nosock" /\ \E j \in DOMAIN call.out :
                                         call.out[j] = "reply") =>
              call.result = "true"
        /\ call.result = "raise" <=> call.out[1] = "nosock"

\* The first port is silent, the second replies: the third, which would
\* reply too, is not probed.
C26_Witness ==
    /\ call.fn = "is_server_available"
    /\ call.out = << "timeout", "reply", "reply" >>
    /\ call.result = "true"
    /\ call.tried = 2

(***************************************************************************)
(* Duration (specification SpecDuration)                                   *)
(***************************************************************************)
\* C27: whatever the duration, a driver that has received no shutdown token
\* and whose liveness probes have all been answered has not left its loop.
C27_DurationAdvisory ==
    (~received_shutdown /\ \A i \in DOMAIN probes : probes[i] = "true") =>
        /\ exit_via = "none"
        /\ pc \notin {"except", "finally", "summary", "done"}

\* The driver is at work in its third iteration, later than the duration
\* it was given allows, every probe answered.
C27_Witness ==
    /\ duration = TickSeconds
    /\ pc = "activity"
    /\ iter = 3
    /\ clock - start_time > duration
    /\ ~received_shutdown
    /\ probes # << >>
    /\ \A i \in DOMAIN probes : probes[i] = "true"

(***************************************************************************)
(* Order of the steps of an iteration (specification Spec)                 *)
(***************************************************************************)
\* C28 (as the specification states it): a traffic activity is performed
\* only in an iteration in which no ping, no throughput snapshot and no
\* liveness probe was due.
C28_ActivityOnlyOtherwise ==
    "activity" \in iter_work => iter_work = {"activity"}

\* C29 (as the specification states it): a gameplay packet whose typed base
\* data is shorter than the target payload size is sent with a payload of
\* exactly the target payload size.
C29_PaddedToTarget ==
    call.fn = "_send_gameplay_packets" =>
        \A i \in DOMAIN call.packets :
            call.packets[i].base_len < call.packets[i].target_payload_size =>
                call.packets[i].payload_len = call.packets[i].target_payload_size

StartReturned(l) == l.at = "returned"

\* C31: when bind() raises inside PortListener.start, start returns without
\* raising and running is False; a listener is running only after its
\* bind() has succeeded.
C31_BindFailureContained ==
    \A i \in DOMAIN listeners :
        LET l == listeners[i] IN
        /\ l.bind = "failed" => StartReturned(l) /\ ~l.running
        /\ l.running => l.bind = "ok"

\* One listener failed to bind and has returned from start with running
\* False, while another one bound its port and is running.
C31_Witness ==
    /\ \E i \in DOMAIN listeners :
          /\ listeners[i].bind = "failed"
          /\ StartReturned(listeners[i])
          /\ ~listeners[i].running
    /\ \E j \in DOMAIN listeners :
          listeners[j].running /\ listeners[j].bind = "ok"

(***************************************************************************)
(* C32 - no further iteration once the shutdown flag is set                *)
(***************************************************************************)
\* The driver is between two iterations, at `while self.running`.
AtLoopHead == pc = "loop"

\* C32: once received_shutdown is set while the driver runs, the driver
\* begins no further iteration: the next time it stands at the head of the
\* loop it can only leave the loop, doing no work of a new iteration, and
\* from there it terminates; a terminated driver has running = False.
C32_NoFurtherIteration ==
    /\ [][(received_shutdown /\ AtLoopHead /\ pc' # pc) =>
             (pc' = "finally" /\ exit_via' = "shutdown" /\ iter_work' = {})]_vars
    /\ [](pc \in {"summary", "done"} => ~running)
    /\ (received_shutdown /\ running /\ AtLoopHead) ~> (pc = "done" /\ ~running)

\* The flag was set during the second iteration; the driver finished that
\* iteration, began no third one and has terminated.
C32_Witness ==
    /\ received_shutdown
    /\ pc = "done"
    /\ ~running
    /\ iter_work = {}
    /\ exit_via = "shutdown"
    /\ Len(probes) >= 1

(***************************************************************************)
(* C33 - running is set before the listener is spawned                     *)
(***************************************************************************)
\* The driver has pinged, probed or sent traffic.
ActivityBegun ==
    ping_attempts > 0 \/ probes # << >> \/ tcp_attempts > 0 \/ send_attempts > 0

\* The driver has passed its finally clause.
DriverFinished == pc \in {"summary", "done"}

\* C33: the driver sets running = True before it spawns the shutdown
\* listener and spawns it once, before any ping, probe or traffic; the
\* listener therefore never leaves its loop on a running flag that was not
\* set yet: it leaves at the loop test only when the shutdown flag is set or
\* the driver has finished.
C33_RunningBeforeListener ==
    /\ [](lpc # "none" /\ ~DriverFinished => running)
    /\ [](ActivityBegun => lpc # "none")
    /\ [][lpc' # lpc /\ lpc' = "setup" => lpc = "none" /\ pc = "idle" /\ running']_vars
    /\ [][lpc = "check" /\ lpc' = "cleanup" => received_shutdown \/ DriverFinished]_vars

\* The listener passed its first loop test with running set and waits for a
\* datagram, while the driver has already pinged and probed.
C33_Witness ==
    /\ lpc = "recv"
    /\ running
    /\ ping_attempts > 0
    /\ probes # << >>

(***************************************************************************)
(* C34 - the two shared flags: one writer each, monotone                   *)
(***************************************************************************)
\* A step of the driver thread, a step of the listener thread.
DriverStep == pc' # pc
ListenerStep == lpc' # lpc /\ pc' = pc

\* C34: received_shutdown is written by the listener alone, from False to
\* True and never back; running is written by the driver alone, to True at
\* its start and to False in its finally clause.
C34_SingleWriterFlags ==
    /\ [][received_shutdown' # received_shutdown =>
             /\ ListenerStep
             /\ lpc = "recv"
             /\ ~received_shutdown /\ received_shutdown']_vars
    /\ [][running' # running =>
             /\ DriverStep
             /\ \/ pc = "idle" /\ ~running /\ running'
                \/ pc = "finally" /\ running /\ ~running']_vars
    /\ [][received_shutdown => received_shutdown']_vars

\* Both flags have been written: the listener set received_shutdown, the
\* driver set running at its start and cleared it at its exit.
C34_Witness ==
    /\ received_shutdown
    /\ ~running
    /\ pc = "done"
    /\ lpc = "ended"

(***************************************************************************)
(* C35 - every driver ends and start_simulation returns once the server    *)
(* has stopped answering                                                   *)
(***************************************************************************)
\* Every connection start_simulation was to spawn has a thread that ended.
AllDriversEnded ==
    /\ Len(threads) = num_players * connections_per_player
    /\ \A k \in DOMAIN threads : threads[k] = "dead"

\* start_simulation has returned.
SimulationReturned == mpc \in {"report", "done"}

\* C35: when every liveness probe fails and no shutdown token is delivered,
\* then under fair scheduling every driver eventually reaches a terminal
\* state and start_simulation eventually returns.
C35_FleetTerminates == <>(AllDriversEnded /\ SimulationReturned)

\* start_simulation has returned from a fleet of several connections, one
\* of which counted max_consecutive_failures failed probes and ended as
\* unreachable.
C35_Witness ==
    /\ SimulationReturned
    /\ AllDriversEnded
    /\ Len(threads) > 1
    /\ \E k \in DOMAIN clients :
          /\ clients[k].reason = "unreachable"
          /\ clients[k].consecutive_failures = max_consecutive_failures

(***************************************************************************)
(* C36 - the shutdown broadcast comes before any listener is stopped       *)
(***************************************************************************)
\* broadcast_shutdown has returned.
BroadcastDone == broadcast.at = "returned"

\* A listener has been stopped: stop() is what closes a listener's socket.
SomeListenerStopped ==
    stopped > 0 \/ \E i \in DOMAIN listeners : listeners[i].socket = "closed"

\* The sendto calls of a broadcast that has gone through both loops.
AllTargetPorts == Len(broadcast.targets) * Len(shutdown_ports)

\* C36: shutdown_server sends SERVER_SHUTDOWN to every target port before it
\* stops any port listener: a listener is stopped only once
\* broadcast_shutdown has returned, no notification is sent after a stop,
\* and a broadcast that got its socket has by then addressed every port of
\* every target.
C36_BroadcastBeforeStop ==
    /\ [](SomeListenerStopped => BroadcastDone)
    /\ [][stopped' # stopped => BroadcastDone /\ broadcast' = broadcast]_vars
    /\ [][broadcast' # broadcast => ~SomeListenerStopped /\ stopped' = 0]_vars
    /\ [](SomeListenerStopped /\ broadcast.targets # << >> =>
             broadcast.attempts = AllTargetPorts)

\* Every listener has been stopped after a broadcast that addressed the ten
\* shutdown ports of all four targets and got at least one datagram out.
C36_Witness ==
    /\ stopped = Len(listeners)
    /\ stopped = Len(ListenerPlan)
    /\ broadcast.attempts = (Len(client_targets) + 1) * Len(shutdown_ports)
    /\ broadcast.notification_sent
    /\ spc = "done"

(***************************************************************************)
(* C37 - the listener ports are the ports the server notifies              *)
(***************************************************************************)
\* The ports broadcast_shutdown sends SERVER_SHUTDOWN to.
NotifiedPorts == {shutdown_ports[i] : i \in DOMAIN shutdown_ports}

\* C37: for every identity, plain, compound or unparsable, the port
\* _setup_shutdown_socket computes lies in 7778..7787, which is the set of
\* ports broadcast_shutdown notifies; every one of these ports is the port
\* of some player number.
C37_ListenerPortNotified ==
    /\ call.fn = "_setup_shutdown_socket" =>
          /\ call.listen_port \in 7778..7787
          /\ call.listen_port \in NotifiedPorts
    /\ NotifiedPorts = 7778..7787
    /\ \A q \in NotifiedPorts : \E p \in 0..9 : listen_port(<< p >>) = q

\* The client of player 19 has computed its port, 7787, the last one the
\* server notifies.
C37_Witness ==
    /\ call.fn = "_setup_shutdown_socket"
    /\ call.player_id = << 1, 9 >>
    /\ call.listen_port = 7787
    /\ shutdown_socket = "bound"

(***************************************************************************)
(* C38 - is_server_available never raises                                  *)
(***************************************************************************)
\* The driver was ended by an exception that its last liveness probe raised.
CrashedByProbe ==
    /\ exit_via = "exception"
    /\ probes # << >>
    /\ probes[Len(probes)] = "raise"

\* C38: is_server_available returns True or False whatever its socket
\* operations do and never raises; a socket that cannot be made or used
\* counts as an unresponsive port and cannot end the driver as crashed.
C38_ProbeNeverRaises ==
    /\ \A i \in DOMAIN probes : probes[i] \in {"true", "false"}
    /\ ~CrashedByProbe

(***************************************************************************)
(* C39 - the summary of the report against its player_details              *)
(***************************************************************************)
\* The measured (non-null) ping samples of connection k, and their sum.
PingSamples(k) == SelectSeq(clients[k].stats.ping_times, LAMBDA x : x # None)
PingSampleSum(k) ==
    LET q == PingSamples(k)
        S[i \in 0..Len(q)] == IF i = 0 THEN 0 ELSE S[i - 1] + q[i]
    IN S[Len(q)]

\* C39: in the generated report every summary total is the sum of the
\* corresponding field over the player_details entries, the summary
\* ping_count is the sum of their ping_count values, and the summary
\* minimum, maximum and average are those of all non-null ping samples of
\* all connections taken together.
C39_SummaryMatchesDetails ==
    report # << >> =>
        LET total == report[1].total_stats
            details == report[1].player_details
            n == Len(details)
            Sum(f) == LET S[i \in 0..n] == IF i = 0 THEN 0 ELSE S[i - 1] + f[i]
                      IN S[n]
            measured == {k \in 1..n : details[k].ping_count > 0}
            sample_sum == Sum([k \in 1..n |-> PingSampleSum(k)])
        IN /\ total.total_players = n
           /\ total.total_tcp_connections = Sum([k \in 1..n |-> details[k].tcp_connections])
           /\ total.total_tcp_failed = Sum([k \in 1..n |-> details[k].tcp_failed])
           /\ total.total_udp_packets = Sum([k \in 1..n |-> details[k].udp_packets_sent])
           /\ total.total_udp_responses = Sum([k \in 1..n |-> details[k].udp_responses])
           /\ total.total_udp_timeouts = Sum([k \in 1..n |-> details[k].udp_timeouts])
           /\ total.total_bytes_sent = Sum([k \in 1..n |-> details[k].total_bytes_sent])
           /\ total.total_bytes_received =
                 Sum([k \in 1..n |-> details[k].total_bytes_received])
           /\ total.total_errors = Sum([k \in 1..n |-> details[k].error_count])
           /\ total.ping_count = Sum([k \in 1..n |-> details[k].ping_count])
           /\ measured = {} =>
                 /\ total.ping_min_ms = None
                 /\ total.ping_max_ms = None
                 /\ total.ping_avg_ms = NoneFraction
           /\ measured # {} =>
                 /\ \E k \in measured : total.ping_min_ms = details[k].ping_min_ms
                 /\ \A k \in measured : total.ping_min_ms <= details[k].ping_min_ms
                 /\ \E k \in measured : total.ping_max_ms = details[k].ping_max_ms
                 /\ \A k \in measured : total.ping_max_ms >= details[k].ping_max_ms
                 /\ total.ping_avg_ms.den > 0
                 /\ total.ping_avg_ms.num * total.ping_count
                       = sample_sum * total.ping_avg_ms.den

\* A report over connections of which two measured pings and lost one each,
\* one logged an error: four samples in all, between 12 and 48 ms.
C39_Witness ==
    /\ report # << >>
    /\ report[1].total_stats.ping_count = 4
    /\ report[1].total_stats.ping_min_ms = 12
    /\ report[1].total_stats.ping_max_ms = 48
    /\ report[1].total_stats.total_errors >= 1
    /\ \E k \in DOMAIN clients :
          /\ None \in {clients[k].stats.ping_times[i] : i \in DOMAIN clients[k].stats.ping_times}
          /\ report[1].player_details[k].ping_count = 2

====
